---- MODULE Spec2Model ----
(***************************************************************************)
(* Financial analytics engine of investment-DEV (prism/api/lib):           *)
(*   investment_comparison.py  InvestmentComparator                        *)
(*   portfolio_optimizer.py    PortfolioOptimizer                          *)
(*   financial_metrics.py      FinancialMetricsEngine                      *)
(*                                                                         *)
(* Numbers are exact fixed-point integers: percentages are whole percent,  *)
(* Sharpe ratios are hundredths, scores are 1/1200 of a score point and    *)
(* portfolio weights are 1/60 of the whole.  Each public operation is one  *)
(* action: it draws its arguments, runs the code and stores what the       *)
(* caller observes (result, exception, warnings).                          *)
(***************************************************************************)
EXTENDS Integers, Sequences, FiniteSets, TLC

VARIABLES
    weights,        \* InvestmentComparator.weights, set by __init__
    investments,    \* compare_investments argument
    metrics_list,   \* compare_investments argument
    cmp_pc,         \* "idle" | "returned" | "raised"
    cmp_error,      \* exception type when cmp_pc = "raised"
    cmp_result,     \* <<ComparisonResult>> when cmp_pc = "returned"
    score_pc,       \* "idle" | "returned"
    score_metrics,  \* calculate_composite_score argument
    score_result,   \* calculate_composite_score return value (x 1200)
    opt_pc,         \* "idle" | "returned" | "raised"
    opt_op,         \* the PortfolioOptimizer operation that was called
    opt_args,       \* its arguments
    opt_error,      \* exception type when opt_pc = "raised"
    opt_result,     \* <<return value>> when opt_pc = "returned"
    opt_warnings,   \* warnings.warn messages issued during the call
    opt_trace,      \* estimation and solver steps the call executed, in order
    solver_log,     \* what scipy.optimize.minimize returned, one entry per call
    pm_pc,          \* "idle" | "returned"
    pm_metrics,     \* calculate_portfolio_metrics argument
    pm_result,      \* <<PortfolioMetrics>> when pm_pc = "returned"
    fn_pc,          \* "idle" | "returned" | "raised", of a static metric function
    fn_op,          \* the function that was called
    fn_args,        \* its arguments
    fn_root,        \* what numpy_financial.irr returned, <<>> when not called
    fn_result,      \* its return value
    today,          \* date.today(), as a day number
    az_pc,          \* "idle" | "returned" | "raised", of analyze_investment
    az_day,         \* the day analyze_investment was called
    az_args,        \* its arguments
    az_root,        \* what numpy_financial.irr returns for its cash-flow vector
    az_error,       \* exception type when az_pc = "raised"
    az_result,      \* <<InvestmentMetrics>> when az_pc = "returned"
    az_cf_list,     \* the vector handed to calculate_irr, _npv and _payback_period
    az_returns,     \* the period returns derived from the valuation history
    az_cash_flows,  \* the caller's cash_flows list after the call
    az_again,       \* <<[day, error, result]>> of a later call with the same arguments
    sc_pc,          \* "idle" | "returned", of run_scenarios
    sc_args,        \* its arguments
    sc_result,      \* the mapping returned, one entry per scenario
    ep_pc,          \* compare endpoint: "idle" | "returned" | "raised"
    ep_rows,        \* the investment rows the endpoint loaded
    ep_metrics,     \* all_metrics, one to_dict() per row
    ep_result,      \* <<ComparisonResult>> when ep_pc = "returned"
    jobs,           \* processing_jobs rows: status, retry_count, max_retries, worker_id
    workers,        \* per worker: position in run(), running, job, current_job, handler
    cancel_pc,      \* per job: position of a cancel_job request
    job_claims,     \* per job: number of times _claim_job returned it
    analysis_results \* per job: number of analysis_results rows saved for it

cmpVars   == <<investments, metrics_list, cmp_pc, cmp_error, cmp_result>>
scoreVars == <<score_pc, score_metrics, score_result>>
optVars   == <<opt_pc, opt_op, opt_args, opt_error, opt_result, opt_warnings,
               opt_trace, solver_log>>
engineVars == <<pm_pc, pm_metrics, pm_result>>
fnVars    == <<fn_pc, fn_op, fn_args, fn_root, fn_result>>
azVars    == <<today, az_pc, az_day, az_args, az_root, az_error, az_result, az_cf_list,
               az_returns, az_cash_flows, az_again>>
scVars    == <<sc_pc, sc_args, sc_result>>
epVars    == <<ep_pc, ep_rows, ep_metrics, ep_result>>
wkVars    == <<jobs, workers, cancel_pc, job_claims, analysis_results>>
vars      == <<weights, cmpVars, scoreVars, optVars, engineVars, fnVars, azVars, scVars,
               epVars, wkVars>>

-----------------------------------------------------------------------------
(* Python values *)

\* Python None (a key that is present with no value)
None == -999998
\* a dict key that is absent: dict.get(key, default) yields the default
Missing == -999999

Max(a, b) == IF a > b THEN a ELSE b
Min(a, b) == IF a < b THEN a ELSE b

RECURSIVE SumSeq(_)
SumSeq(s) == IF s = <<>> THEN 0 ELSE Head(s) + SumSeq(Tail(s))

\* metrics.get(key, default) or default
GetOr(v, default) == IF v = Missing \/ v = None \/ v = 0 THEN default ELSE v

\* metrics.get(key, default): only an absent key takes the default
Get(v, default) == IF v = Missing THEN default ELSE v

\* round(num / den, 0) for den > 0: nearest integer, ties to the even one
RoundHalfEven(num, den) ==
    LET q == num \div den
        r == num % den
    IN  IF 2 * r < den THEN q
        ELSE IF 2 * r > den THEN q + 1
        ELSE IF q % 2 = 0 THEN q ELSE q + 1

-----------------------------------------------------------------------------
(* Scoring weights, in hundredths *)

DEFAULT_SCORING_WEIGHTS ==
    [roi |-> 25, cagr |-> 25, sharpe |-> 20, max_drawdown |-> 15, payback_period |-> 15]

RISK_AVERSE_WEIGHTS ==
    [roi |-> 20, cagr |-> 15, sharpe |-> 30, max_drawdown |-> 25, payback_period |-> 10]

RETURN_FOCUSED_WEIGHTS ==
    [roi |-> 35, cagr |-> 30, sharpe |-> 15, max_drawdown |-> 10, payback_period |-> 10]

WeightProfiles == {DEFAULT_SCORING_WEIGHTS, RISK_AVERSE_WEIGHTS, RETURN_FOCUSED_WEIGHTS}

\* sub-scores are kept in twelfths of a point: every reference range
\* (150, 4, 50, 10 years = 120 months) divides 1200
ScoreScale == 3 * 4
\* composite scores are sub-scores (twelfths) times weights (hundredths)
CompositeScale == ScoreScale * 100

-----------------------------------------------------------------------------
(* InvestmentComparator._normalize_score                                   *)
(* value = num / den; the result is the 0-100 score times ScoreScale       *)

NormalizeScoreNoClamp(num, den, min_val, max_val, invert) ==
    IF max_val = min_val THEN 50 * ScoreScale
    ELSE LET normalized == ((num - min_val * den) * 100 * ScoreScale)
                               \div (den * (max_val - min_val))
         IN  IF invert THEN 100 * ScoreScale - normalized ELSE normalized

NormalizeScore(num, den, min_val, max_val, invert) ==
    IF max_val = min_val THEN 50 * ScoreScale
    ELSE LET normalized == ((num - min_val * den) * 100 * ScoreScale)
                               \div (den * (max_val - min_val))
             clamped    == Max(0, Min(100 * ScoreScale, normalized))
         IN  IF invert THEN 100 * ScoreScale - clamped ELSE clamped

(* InvestmentComparator.calculate_composite_score, times CompositeScale    *)
CompositeScore(metrics, w) ==
    LET roi      == GetOr(metrics.simple_roi, 0)
        cagr     == GetOr(metrics.cagr, 0)
        sharpe   == GetOr(metrics.sharpe_ratio, 0)
        drawdown == GetOr(metrics.max_drawdown, 0)
        payback  == GetOr(metrics.payback_period_months, 999)
    IN    NormalizeScore(roi, 1, -50, 100, FALSE) * w.roi
        + NormalizeScore(cagr, 1, -50, 100, FALSE) * w.cagr
        + NormalizeScore(sharpe, 100, -1, 3, FALSE) * w.sharpe
        + NormalizeScore(drawdown, 1, 0, 50, TRUE) * w.max_drawdown
        + NormalizeScore(payback, 12, 0, 10, TRUE) * w.payback_period

-----------------------------------------------------------------------------
(* Python's sorted(items, key=..., reverse=True): a stable descending sort *)

\* the position when equal keys come out in reverse input order
SortPositionLatestFirst(keys, i) ==
    1 + Cardinality({j \in DOMAIN keys :
                        keys[j] > keys[i] \/ (keys[j] = keys[i] /\ j > i)})

\* 1-based position that element i of the list takes in the sorted list:
\* larger keys first, equal keys in their original order
SortPosition(keys, i) ==
    1 + Cardinality({j \in DOMAIN keys :
                        keys[j] > keys[i] \/ (keys[j] = keys[i] /\ j < i)})

\* the sorted list, as the sequence of original indices
SortedDesc(keys) ==
    [p \in 1..Len(keys) |-> CHOOSE i \in 1..Len(keys) : SortPosition(keys, i) = p]

\* ranks that leave ties unbroken (every element of a tie gets the same rank)
RankOfTied(keys, i) ==
    1 + Cardinality({j \in DOMAIN keys : keys[j] > keys[i]})

\* "for i, s in enumerate(sorted_by_x): s.x_rank = i + 1"
RankOf(keys, i) == SortPosition(keys, i)

-----------------------------------------------------------------------------
(* compare_investments *)

\* Calmar ratio cagr / max_drawdown as the pair <<cagr, max_drawdown>>,
\* <<>> when it is not defined (None)
Calmar(metrics) ==
    IF /\ GetOr(metrics.cagr, 0) # 0
       /\ GetOr(metrics.max_drawdown, 0) # 0
       /\ metrics.max_drawdown > 0
    THEN <<metrics.cagr, metrics.max_drawdown>>
    ELSE <<>>

\* [self.calculate_composite_score(metrics) for metrics in metrics_list]
RECURSIVE CompositeScores(_, _)
CompositeScores(mlist, w) ==
    IF mlist = <<>> THEN <<>>
    ELSE <<CompositeScore(Head(mlist), w)>> \o CompositeScores(Tail(mlist), w)

\* the scored_investments list (input order) with the four ranks assigned
ScoredInvestments(invs, mlist, w) ==
    LET n         == Min(Len(invs), Len(mlist))
        roiKey    == [i \in 1..n |-> GetOr(mlist[i].simple_roi, 0)]
        cagrKey   == [i \in 1..n |-> GetOr(mlist[i].cagr, 0)]
        sharpeKey == [i \in 1..n |-> GetOr(mlist[i].sharpe_ratio, 0)]
        compKey   == CompositeScores(SubSeq(mlist, 1, n), w)
    IN  [i \in 1..n |->
            [investment_id       |-> invs[i].id,
             name                |-> invs[i].name,
             category            |-> invs[i].category,
             metrics             |-> mlist[i],
             composite_score     |-> compKey[i],
             risk_adjusted_score |-> Calmar(mlist[i]),
             roi_rank            |-> RankOf(roiKey, i),
             cagr_rank           |-> RankOf(cagrKey, i),
             sharpe_rank         |-> RankOf(sharpeKey, i),
             composite_rank      |-> RankOf(compKey, i)]]

\* the scored investments left in input order
SortedByInputOrder(scored) == scored

\* sorted_by_composite
SortedByComposite(scored) ==
    LET order == SortedDesc([i \in 1..Len(scored) |-> scored[i].composite_score])
    IN  [p \in 1..Len(scored) |-> scored[order[p]]]

\* categories in order of first appearance (dict insertion order)
RECURSIVE CategoryOrder(_, _)
CategoryOrder(invs, seen) ==
    IF invs = <<>> THEN <<>>
    ELSE IF Head(invs).category \in seen THEN CategoryOrder(Tail(invs), seen)
    ELSE <<Head(invs).category>>
             \o CategoryOrder(Tail(invs), seen \cup {Head(invs).category})

TotalValue(invs) == SumSeq([i \in 1..Len(invs) |-> invs[i].current_value])
TotalInvested(invs) == SumSeq([i \in 1..Len(invs) |-> invs[i].purchase_price])

\* portfolio_concentration: category -> percent of total value, in
\* hundredths of a percent (round(..., 2))
PortfolioConcentration(invs) ==
    LET total == TotalValue(invs)
        cats  == {invs[i].category : i \in 1..Len(invs)}
        val(c) == SumSeq([i \in 1..Len(invs) |->
                            IF invs[i].category = c THEN invs[i].current_value ELSE 0])
    IN  [c \in cats |-> IF total > 0 THEN RoundHalfEven(val(c) * 10000, total) ELSE 0]

\* risk_distribution
RiskBucket(metrics) ==
    LET vol == Get(metrics.volatility, None)
    IN  IF vol = None THEN "medium"
        ELSE IF vol < 15 THEN "low"
        ELSE IF vol < 30 THEN "medium"
        ELSE "high"

RiskDistribution(scored) ==
    [b \in {"low", "medium", "high"} |->
        Cardinality({i \in 1..Len(scored) : RiskBucket(scored[i].metrics) = b})]

\* one generated message: its kind and the investment or category it names
Message(kind, id, category) == [kind |-> kind, id |-> id, category |-> category]

\* s for s in items if keep[s], order preserved
RECURSIVE FilterIndices(_, _)
FilterIndices(idx, keep) ==
    IF idx = <<>> THEN <<>>
    ELSE (IF Head(idx) \in keep THEN <<Head(idx)>> ELSE <<>>)
             \o FilterIndices(Tail(idx), keep)

(* InvestmentComparator._generate_analysis(scored, investments, total_value, *)
(* concentration).  raises: the f-string at line 412 formats                *)
(* metrics.get('simple_roi', 0) with ":.1f", a TypeError for None.          *)
GenerateAnalysis(scored, invs, total_value, concentration) ==
    LET n      == Len(scored)
        winner == scored[1]
        loser  == scored[n]
        roi    == GetOr(loser.metrics.simple_roi, 0)
        lowRecs ==
            IF n > 1 /\ ~(roi < 0) /\ roi < 5
            THEN <<Message("modest_returns", loser.investment_id, "")>> ELSE <<>>
        lowWarn ==
            IF n > 1 /\ roi < 0
            THEN <<Message("underperforming", loser.investment_id, "")>> ELSE <<>>
        catOrder == CategoryOrder(invs, {})
        heavy    == {p \in 1..Len(catOrder) : concentration[catOrder[p]] > 5000}
        heavyIdx == FilterIndices([p \in 1..Len(catOrder) |-> p], heavy)
        divWarn  ==
            IF Cardinality(DOMAIN concentration) < 3
            THEN <<Message("few_categories", 0, "")>>
            ELSE [k \in 1..Len(heavyIdx) |->
                     Message("category_over_50", 0, catOrder[heavyIdx[k]])]
        highRisk == {i \in 1..n : GetOr(scored[i].metrics.volatility, 0) > 30}
        riskWarn == IF highRisk # {} THEN <<Message("high_volatility", 0, "")>> ELSE <<>>
        withSharpe == FilterIndices([i \in 1..n |-> i],
                          {i \in 1..n : GetOr(scored[i].metrics.sharpe_ratio, 0) # 0})
        sharpeOrder == SortedDesc([k \in 1..Len(withSharpe) |->
                          GetOr(scored[withSharpe[k]].metrics.sharpe_ratio, 0)])
        sharpeOpp ==
            IF withSharpe # <<>>
            THEN <<Message("best_sharpe",
                           scored[withSharpe[sharpeOrder[1]]].investment_id, "")>>
            ELSE <<>>
        strong   == {i \in 1..Min(2, n) : scored[i].composite_score > 70 * CompositeScale}
        strongIdx == FilterIndices([i \in 1..Min(2, n) |-> i], strong)
        allocOpp == [k \in 1..Len(strongIdx) |->
                        Message("increase_allocation",
                                scored[strongIdx[k]].investment_id, "")]
    IN  IF n = 0
        THEN [raises |-> FALSE, recommendations |-> <<>>, warnings |-> <<>>,
              opportunities |-> <<>>]
        ELSE [raises          |-> Get(winner.metrics.simple_roi, 0) = None,
              recommendations |-> <<Message("best_performer", winner.investment_id, "")>>
                                      \o lowRecs,
              warnings        |-> lowWarn \o divWarn \o riskWarn,
              opportunities   |-> sharpeOpp \o allocOpp]

\* risk_adjusted_ranking: the investments with a Calmar score, larger scores
\* first and equal scores in input order, with the ratio in hundredths
RiskAdjustedRanking(scored) ==
    LET with == {i \in 1..Len(scored) : scored[i].risk_adjusted_score # <<>>}
        calmar(i) == scored[i].risk_adjusted_score
        before(j, i) == \/ calmar(j)[1] * calmar(i)[2] > calmar(i)[1] * calmar(j)[2]
                        \/ /\ calmar(j)[1] * calmar(i)[2] = calmar(i)[1] * calmar(j)[2]
                           /\ j < i
        rank(i) == 1 + Cardinality({j \in with : before(j, i)})
    IN  [p \in 1..Cardinality(with) |->
            LET i == CHOOSE i \in with : rank(i) = p
            IN  [rank          |-> p,
                 investment_id |-> scored[i].investment_id,
                 calmar_ratio  |-> RoundHalfEven(calmar(i)[1] * 100, calmar(i)[2]),
                 cagr          |-> calmar(i)[1],
                 max_drawdown  |-> calmar(i)[2]]]

(* The ComparisonResult that compare_investments returns for arguments that *)
(* passed its validation; analysis is the _generate_analysis outcome        *)
ComparisonResult(invs, mlist, w) ==
    LET scored   == ScoredInvestments(invs, mlist, w)
        ranked   == SortedByComposite(scored)
        total    == TotalValue(invs)
        conc     == PortfolioConcentration(invs)
        analysis == GenerateAnalysis(scored, invs, total, conc)
        winner   == ranked[1]
    IN  [raises                  |-> analysis.raises,
         winner_id               |-> winner.investment_id,
         winner_name             |-> winner.name,
         winner_score            |-> winner.composite_score,
         rankings                |-> ranked,
         total_portfolio_value   |-> total,
         total_invested          |-> TotalInvested(invs),
         portfolio_concentration |-> conc,
         risk_distribution       |-> RiskDistribution(scored),
         risk_adjusted_ranking   |-> RiskAdjustedRanking(scored),
         recommendations         |-> analysis.recommendations,
         warnings                |-> analysis.warnings,
         opportunities           |-> analysis.opportunities]

\* "if not investments or not metrics_list or len(investments) != len(metrics_list)"
CompareRejects(invs, mlist) ==
    invs = <<>> \/ mlist = <<>> \/ Len(invs) # Len(mlist)

-----------------------------------------------------------------------------
(* Arguments of the comparator operations *)

MaxInvestments == 3

Categories == <<"land", "stocks", "crypto", "land", "bonds">>

\* the i-th investment dict of a call
InvestmentAt(i) ==
    [id             |-> i,
     name           |-> i,
     category       |-> Categories[((i - 1) % Len(Categories)) + 1],
     current_value  |-> 100 + 20 * i,
     purchase_price |-> 100]

InvestmentLists == {[i \in 1..n |-> InvestmentAt(i)] : n \in 0..MaxInvestments}

\* metrics dicts handed to compare_investments
CompareMetrics ==
    [simple_roi            : {Missing, None, -10, 20},
     cagr                  : {10},
     sharpe_ratio          : {None, 100},
     max_drawdown          : {Missing},
     payback_period_months : {Missing},
     volatility            : {Missing}]
    \cup {[simple_roi |-> 20, cagr |-> d[1], sharpe_ratio |-> 100, max_drawdown |-> d[2],
           payback_period_months |-> Missing, volatility |-> Missing] :
             d \in {<<0, 20>>, <<20, 40>>}}

MetricsLists == UNION {[1..n -> CompareMetrics] : n \in 0..MaxInvestments}

\* metrics dicts handed to calculate_composite_score
ScoreMetrics ==
    [simple_roi            : {Missing, None, -1000, -50, 0, 25, 100, 1000},
     cagr                  : {None, -1000, -50, 15, 1000},
     sharpe_ratio          : {None, -500, -100, 120, 300, 900},
     max_drawdown          : {None, -3, 0, 10, 50, 60},
     payback_period_months : {None, -5, 0, 6, 36, 120, 999, 5000},
     volatility            : {Missing}]

-----------------------------------------------------------------------------
(* Actions of the comparator *)

CompareIdle ==
    /\ investments = <<>>
    /\ metrics_list = <<>>
    /\ cmp_pc = "idle"
    /\ cmp_error = ""
    /\ cmp_result = <<>>

ScoreIdle ==
    /\ score_pc = "idle"
    /\ score_metrics = <<>>
    /\ score_result = 0

OptimizerIdle ==
    /\ opt_pc = "idle"
    /\ opt_op = ""
    /\ opt_args = <<>>
    /\ opt_error = ""
    /\ opt_result = <<>>
    /\ opt_warnings = <<>>
    /\ opt_trace = <<>>
    /\ solver_log = <<>>

EngineIdle ==
    /\ pm_pc = "idle"
    /\ pm_metrics = <<>>
    /\ pm_result = <<>>

FunctionsIdle ==
    /\ fn_pc = "idle"
    /\ fn_op = ""
    /\ fn_args = <<>>
    /\ fn_root = <<>>
    /\ fn_result = <<>>

AnalysisIdle ==
    /\ today = 0
    /\ az_pc = "idle"
    /\ az_day = 0
    /\ az_args = <<>>
    /\ az_root = <<>>
    /\ az_error = ""
    /\ az_result = <<>>
    /\ az_cf_list = <<>>
    /\ az_returns = <<>>
    /\ az_cash_flows = <<>>
    /\ az_again = <<>>

ScenariosIdle ==
    /\ sc_pc = "idle"
    /\ sc_args = <<>>
    /\ sc_result = <<>>

EndpointIdle ==
    /\ ep_pc = "idle"
    /\ ep_rows = <<>>
    /\ ep_metrics = <<>>
    /\ ep_result = <<>>

\* no processing jobs and no workers
QueueIdle ==
    /\ jobs = <<>>
    /\ workers = <<>>
    /\ cancel_pc = <<>>
    /\ job_claims = <<>>
    /\ analysis_results = <<>>

\* InvestmentComparator.compare_investments(investments, metrics_list)
compare_investments ==
    /\ cmp_pc = "idle"
    /\ \E invs \in InvestmentLists, mlist \in MetricsLists :
          /\ investments' = invs
          /\ metrics_list' = mlist
          /\ IF CompareRejects(invs, mlist)
             THEN /\ cmp_pc' = "raised"
                  /\ cmp_error' = "ValueError"
                  /\ cmp_result' = <<>>
             ELSE LET result == ComparisonResult(invs, mlist, weights)
                  IN  IF result.raises
                      THEN /\ cmp_pc' = "raised"
                           /\ cmp_error' = "TypeError"
                           /\ cmp_result' = <<>>
                      ELSE /\ cmp_pc' = "returned"
                           /\ cmp_error' = ""
                           /\ cmp_result' = <<result>>
    /\ UNCHANGED <<weights, scoreVars, optVars, engineVars, fnVars, azVars, scVars, epVars, wkVars>>

\* InvestmentComparator.calculate_composite_score(metrics)
calculate_composite_score ==
    /\ score_pc = "idle"
    /\ \E m \in ScoreMetrics :
          /\ score_metrics' = <<m>>
          /\ score_result' = CompositeScore(m, weights)
    /\ score_pc' = "returned"
    /\ UNCHANGED <<weights, cmpVars, optVars, engineVars, fnVars, azVars, scVars, epVars, wkVars>>

\* InvestmentComparator.__init__(weights), with the three preset profiles
InitComparator == weights \in WeightProfiles

\* a comparator with the default weights and no operation called yet
InitIdle ==
    /\ weights = DEFAULT_SCORING_WEIGHTS
    /\ CompareIdle
    /\ ScoreIdle
    /\ OptimizerIdle
    /\ EngineIdle
    /\ FunctionsIdle
    /\ AnalysisIdle
    /\ ScenariosIdle
    /\ EndpointIdle
    /\ QueueIdle

InitCompare ==
    /\ InitComparator
    /\ CompareIdle
    /\ ScoreIdle
    /\ OptimizerIdle
    /\ EngineIdle
    /\ FunctionsIdle
    /\ AnalysisIdle
    /\ ScenariosIdle
    /\ EndpointIdle
    /\ QueueIdle
SpecCompare == InitCompare /\ [][compare_investments]_vars

InitScore ==
    /\ InitComparator
    /\ CompareIdle
    /\ ScoreIdle
    /\ OptimizerIdle
    /\ EngineIdle
    /\ FunctionsIdle
    /\ AnalysisIdle
    /\ ScenariosIdle
    /\ EndpointIdle
    /\ QueueIdle
SpecScore == InitScore /\ [][calculate_composite_score]_vars

-----------------------------------------------------------------------------
(* Properties of the comparator *)

\* ids named by the messages of one kind
NamedBy(kind, messages) ==
    {messages[k].id : k \in {k \in 1..Len(messages) : messages[k].kind = kind}}

\* C1: compare_investments fails with ValueError and returns no result
\* whenever investments and metrics_list differ in length or fewer than 2
\* investments are supplied (1 investment with 1 metrics entry included).
C1_RejectsFewerThanTwo ==
    (cmp_pc # "idle" /\ (Len(investments) # Len(metrics_list) \/ Len(investments) < 2))
        => (cmp_pc = "raised" /\ cmp_error = "ValueError")

\* C2: in every result of compare_investments over n investments each of
\* roi_rank, cagr_rank, sharpe_rank and composite_rank, taken over the n
\* scored investments, is a permutation of 1..n.
C2_RanksArePermutations ==
    cmp_pc = "returned" =>
        LET r == cmp_result[1].rankings
            n == Len(r)
        IN  /\ n = Len(investments)
            /\ {r[k].roi_rank : k \in 1..n} = 1..n
            /\ {r[k].cagr_rank : k \in 1..n} = 1..n
            /\ {r[k].sharpe_rank : k \in 1..n} = 1..n
            /\ {r[k].composite_rank : k \in 1..n} = 1..n

\* a returned comparison of 3 investments in which two have the same ROI key,
\* one through a None value and one through a missing key, and two have no
\* Sharpe ratio
C2_TiedAndMissingRanked ==
    /\ cmp_pc = "returned"
    /\ Len(investments) = 3
    /\ metrics_list[2].simple_roi = Missing
    /\ metrics_list[3].simple_roi = None
    /\ metrics_list[1].sharpe_ratio = None
    /\ metrics_list[2].sharpe_ratio = None
    /\ metrics_list[1].simple_roi = 20

\* C4: the best-performer recommendation names the investment with the
\* highest composite score (winner_id, composite_rank 1) and the
\* underperforming / modest-returns flag is evaluated on the investment with
\* the lowest composite score, whatever the input order.
C4_AnalysisFollowsCompositeOrder ==
    cmp_pc = "returned" =>
        LET res == cmp_result[1]
            n   == Len(res.rankings)
            top == res.rankings[1]
            low == res.rankings[n]
            roi == GetOr(low.metrics.simple_roi, 0)
        IN  /\ top.investment_id = res.winner_id
            /\ top.composite_rank = 1
            /\ low.composite_rank = n
            /\ NamedBy("best_performer", res.recommendations) = {res.winner_id}
            /\ NamedBy("underperforming", res.warnings) =
                   IF n > 1 /\ roi < 0 THEN {low.investment_id} ELSE {}
            /\ NamedBy("modest_returns", res.recommendations) =
                   IF n > 1 /\ roi >= 0 /\ roi < 5 THEN {low.investment_id} ELSE {}

-----------------------------------------------------------------------------
(* Properties of the composite score *)

\* C3: calculate_composite_score returns a value in [0, 100] for every
\* metrics mapping, values far outside the reference ranges and missing or
\* None sub-metrics included, under each of the three weight profiles.
C3_CompositeScoreInRange ==
    score_pc = "returned" =>
        (score_result >= 0 /\ score_result <= 100 * CompositeScale)

\* a score computed under the return-focused profile from an ROI far above
\* its range, a drawdown above its range and no CAGR, Sharpe or payback
C3_OutOfRangeScored ==
    /\ score_pc = "returned"
    /\ weights = RETURN_FOCUSED_WEIGHTS
    /\ score_metrics[1].simple_roi = 1000
    /\ score_metrics[1].max_drawdown = 60
    /\ score_metrics[1].cagr = None
    /\ score_metrics[1].sharpe_ratio = None
    /\ score_metrics[1].payback_period_months = None

-----------------------------------------------------------------------------
(* PortfolioOptimizer                                                      *)
(*                                                                         *)
(* A weight w is the integer One * w; an expected return is a whole        *)
(* percentage, and a portfolio's expected return is One * percent.  The    *)
(* volatility, Sharpe ratio and risk contribution of a portfolio need the  *)
(* covariance matrix and a square root; no weight and no branch of the     *)
(* code depends on them and the records leave them out.                    *)

\* the weight 1.0: the upper bound of every weight and the required sum
One == 60

\* the 5-percentage-point band, 0.05
Band == One \div 20

\* current_weights is None
NoWeights == <<>>

\* current_values is None or an empty dict
NoValues == <<>>

Abs(x) == IF x < 0 THEN -x ELSE x

RECURSIVE DotFrom(_, _, _)
DotFrom(w, mu, i) ==
    IF i > Len(w) THEN 0 ELSE w[i] * mu[i] + DotFrom(w, mu, i + 1)

\* np.dot(weights, expected_returns) * 100
Dot(w, mu) == DotFrom(w, mu, 1)

MinOf(xs) == CHOOSE v \in {xs[i] : i \in 1..Len(xs)} :
                 \A i \in 1..Len(xs) : v <= xs[i]
MaxOf(xs) == CHOOSE v \in {xs[i] : i \in 1..Len(xs)} :
                 \A i \in 1..Len(xs) : v >= xs[i]

(* calculate_expected_returns: the explicit expected_return when given,    *)
(* else the annualised mean of the monthly returns (0 without returns)     *)
ExpectedReturns(assets) ==
    [i \in 1..Len(assets) |->
        IF assets[i].expected_return # None
        THEN assets[i].expected_return
        ELSE assets[i].annualized_mean]

(* calculate_covariance_matrix: np.cov squeezes the 1 x 1 covariance of a  *)
(* single series to a scalar, and "cov_matrix[i]" then raises IndexError   *)
CovarianceHasRows(assets) == Len(assets) # 1

\* initial_weights = np.array([1/n_assets] * n_assets)
EqualWeights(n) == [i \in 1..n |-> One \div n]

(* scipy.optimize.minimize(method='SLSQP', bounds=(0, 1), constraints=sum-1) *)
(* An outcome is the pair (result.success, result.x).  On success x meets   *)
(* the bounds and sums to 1: all in the first asset, all in the last, or    *)
(* the even mix.  An equality on the portfolio return is met only up to     *)
(* the solver's tolerance, so the achieved return is left open.  On failure *)
(* x is the last iterate, which need not be feasible.                       *)
SolverSimplex(n) ==
    {[i \in 1..n |-> IF i = k THEN One ELSE 0] : k \in {1, n} \cap (1..n)}
        \cup {[i \in 1..n |-> One \div n] : k \in 1..n}

SolverOutcomes(n) ==
    {[success |-> TRUE, x |-> w] : w \in SolverSimplex(n)}
        \cup {[success |-> FALSE, x |-> [i \in 1..n |-> 0]]}

\* optimal_weights = result.x, success or not
OptimalWeightsUnchecked(outcome, n) == outcome.x

\* optimal_weights = result.x if result.success else initial_weights
OptimalWeights(outcome, n) ==
    IF outcome.success THEN outcome.x ELSE EqualWeights(n)

\* current_w = current_weights[i] if current_weights is not None else 0
CurrentWeight(cw, i) == IF cw = NoWeights THEN 0 ELSE cw[i]

\* the tag when a difference of exactly 0.05 already counts
RecommendationAtBand(optimal_w, current_w) ==
    IF optimal_w >= current_w + Band THEN "increase"
    ELSE IF optimal_w <= current_w - Band THEN "decrease"
    ELSE "hold"

\* the increase / decrease / hold tag of optimize_maximum_sharpe
Recommendation(optimal_w, current_w) ==
    IF optimal_w > current_w + Band THEN "increase"
    ELSE IF optimal_w < current_w - Band THEN "decrease"
    ELSE "hold"

\* EfficientFrontierPoint with its PortfolioAllocation list
FrontierPoint(assets, cw, w, tagged) ==
    LET mu == ExpectedReturns(assets)
    IN  [expected_return |-> Dot(w, mu),
         allocations |->
            [i \in 1..Len(assets) |->
                [investment_id   |-> assets[i].investment_id,
                 current_weight  |-> CurrentWeight(cw, i),
                 optimal_weight  |-> w[i],
                 expected_return |-> mu[i],
                 recommendation  |-> IF tagged
                                     THEN Recommendation(w[i], CurrentWeight(cw, i))
                                     ELSE "hold"]]]

\* one entry of solver_log: a call of minimize and what it returned
SolverCall(problem, target, outcome) ==
    [problem |-> problem, target |-> target,
     success |-> outcome.success, x |-> outcome.x]

EstimationSteps == <<"calculate_expected_returns", "calculate_covariance_matrix">>

(* optimize_maximum_sharpe(asset_returns, current_weights): what it raises *)
(* or returns, the warnings it issues, the steps it takes and the calls of *)
(* minimize it makes, given the outcome of the solver                      *)
MaximumSharpe(assets, cw, outcome) ==
    LET n == Len(assets)
    IN  IF n = 0
        THEN [error |-> "ZeroDivisionError", point |-> <<>>, warnings |-> <<>>,
              trace |-> EstimationSteps, log |-> <<>>]
        ELSE [error    |-> IF CovarianceHasRows(assets) THEN "" ELSE "IndexError",
              point    |-> IF CovarianceHasRows(assets)
                           THEN <<FrontierPoint(assets, cw, OptimalWeights(outcome, n), TRUE)>>
                           ELSE <<>>,
              warnings |-> IF outcome.success THEN <<>> ELSE <<"Optimization failed">>,
              trace    |-> EstimationSteps \o <<"minimize">>,
              log      |-> <<SolverCall("max_sharpe", <<>>, outcome)>>]

(* optimize_minimum_volatility(asset_returns, current_weights) *)
MinimumVolatility(assets, cw, outcome) ==
    LET n == Len(assets)
    IN  IF n = 0
        THEN [error |-> "ZeroDivisionError", point |-> <<>>, warnings |-> <<>>,
              trace |-> EstimationSteps, log |-> <<>>]
        ELSE [error    |-> IF CovarianceHasRows(assets) THEN "" ELSE "IndexError",
              point    |-> IF CovarianceHasRows(assets)
                           THEN <<FrontierPoint(assets, cw, OptimalWeights(outcome, n), FALSE)>>
                           ELSE <<>>,
              warnings |-> <<>>,
              trace    |-> EstimationSteps \o <<"minimize">>,
              log      |-> <<SolverCall("min_volatility", <<>>, outcome)>>]

\* np.linspace(min_return, max_return, num)[k], k = 0..num-1, as the
\* fraction <<numerator, denominator>>
TargetReturn(mu, num, k) ==
    IF num = 1 THEN <<MinOf(mu), 1>>
    ELSE <<MinOf(mu) * (num - 1) + k * (MaxOf(mu) - MinOf(mu)), num - 1>>

\* a target whose solve failed is replaced by the equal-weight portfolio
TargetPointsWithFallback(assets, cw, outcome) ==
    <<FrontierPoint(assets, cw, OptimalWeights(outcome, Len(assets)), FALSE)>>

\* "if result.success: ... frontier.append(EfficientFrontierPoint(...))"
TargetPoints(assets, cw, outcome) ==
    IF outcome.success
    THEN <<FrontierPoint(assets, cw, outcome.x, FALSE)>>
    ELSE <<>>

RECURSIVE FrontierLoop(_, _, _)
FrontierLoop(assets, cw, outcomes) ==
    IF outcomes = <<>> THEN <<>>
    ELSE TargetPoints(assets, cw, Head(outcomes))
             \o FrontierLoop(assets, cw, Tail(outcomes))

\* the targets solved before the loop ends: all of them, or those up to the
\* first success when building its allocations raises
RECURSIVE TargetsSolved(_, _, _)
TargetsSolved(assets, outcomes, k) ==
    IF k > Len(outcomes) THEN Len(outcomes)
    ELSE IF outcomes[k].success /\ ~CovarianceHasRows(assets) THEN k
    ELSE TargetsSolved(assets, outcomes, k + 1)

\* frontier.sort(key=lambda x: x.expected_return): stable, ascending
SortedByReturn(points) ==
    LET pos(i) == 1 + Cardinality({j \in 1..Len(points) :
                        \/ points[j].expected_return < points[i].expected_return
                        \/ /\ points[j].expected_return = points[i].expected_return
                           /\ j < i})
    IN  [p \in 1..Len(points) |->
            points[CHOOSE i \in 1..Len(points) : pos(i) = p]]

(* calculate_efficient_frontier(asset_returns, num_portfolios, current_weights); *)
(* outcomes[k] is what _minimize_volatility_at_target returns for target k       *)
EfficientFrontier(assets, num, cw, outcomes) ==
    LET mu == ExpectedReturns(assets)
        solved == TargetsSolved(assets, outcomes, 1)
        raises == \E k \in 1..num : outcomes[k].success /\ ~CovarianceHasRows(assets)
    IN  IF Len(assets) = 0
        THEN [error |-> "ValueError", frontier |-> <<>>,
              trace |-> EstimationSteps, log |-> <<>>]
        ELSE [error    |-> IF raises THEN "IndexError" ELSE "",
              frontier |-> IF raises THEN <<>>
                           ELSE SortedByReturn(FrontierLoop(assets, cw, outcomes)),
              trace    |-> EstimationSteps \o [k \in 1..solved |-> "minimize"],
              log      |-> [k \in 1..solved |->
                              SolverCall("target_return", TargetReturn(mu, num, k - 1),
                                         outcomes[k])]]

\* num_portfolios=30 in optimize_portfolio
FrontierSize == 30

\* the empty-list check is missing
PortfolioAccepts(assets) == FALSE

\* "if not asset_returns: raise ValueError"
PortfolioRejects(assets) == Len(assets) = 0

\* "if current_values and total_portfolio_value": the weights derived from
\* current_values.get(investment_id, 0) / total_portfolio_value
DerivedWeights(assets, values, total) ==
    IF values # NoValues /\ total # None /\ total # 0
    THEN [i \in 1..Len(assets) |-> (Get(values[i], 0) * One) \div total]
    ELSE NoWeights

\* the rebalancing action of one allocation of the maximum-Sharpe portfolio;
\* weights rounded to 4 decimals, the amount to 2
RebalancingAction(allocation, total) ==
    LET diff == allocation.optimal_weight - allocation.current_weight
    IN  [investment_id    |-> allocation.investment_id,
         action           |-> IF diff > 0 THEN "buy" ELSE "sell",
         current_weight   |-> RoundHalfEven(allocation.current_weight * 10000, One),
         target_weight    |-> RoundHalfEven(allocation.optimal_weight * 10000, One),
         difference       |-> RoundHalfEven(Abs(diff) * 10000, One),
         estimated_amount |-> IF total # None /\ total # 0
                              THEN RoundHalfEven(Abs(diff) * total * 100, One)
                              ELSE Missing]

RECURSIVE RebalancingActions(_, _, _)
RebalancingActions(allocations, total, i) ==
    IF i > Len(allocations) THEN <<>>
    ELSE (IF Abs(allocations[i].optimal_weight - allocations[i].current_weight) > Band
          THEN <<RebalancingAction(allocations[i], total)>>
          ELSE <<>>) \o RebalancingActions(allocations, total, i + 1)

\* what optimize_portfolio makes of the three parts it computed
PortfolioOutcome(assets, cw, total, max_sharpe, min_vol, frontier) ==
    LET nothing == [error |-> "ValueError", result |-> <<>>, warnings |-> <<>>,
                    trace |-> <<>>, log |-> <<>>]
    IN  IF max_sharpe.error # ""
        THEN [nothing EXCEPT !.error = max_sharpe.error,
                             !.warnings = max_sharpe.warnings,
                             !.trace = EstimationSteps \o max_sharpe.trace,
                             !.log = max_sharpe.log]
        ELSE IF min_vol.error # ""
        THEN [nothing EXCEPT !.error = min_vol.error,
                             !.warnings = max_sharpe.warnings,
                             !.trace = EstimationSteps \o max_sharpe.trace \o min_vol.trace,
                             !.log = max_sharpe.log \o min_vol.log]
        ELSE IF frontier.error # ""
        THEN [nothing EXCEPT !.error = frontier.error,
                             !.warnings = max_sharpe.warnings,
                             !.trace = EstimationSteps \o max_sharpe.trace
                                           \o min_vol.trace \o frontier.trace,
                             !.log = max_sharpe.log \o min_vol.log \o frontier.log]
        ELSE [error    |-> "",
              result   |-> <<[current_return |->
                                 IF cw # NoWeights
                                 THEN Dot(cw, ExpectedReturns(assets)) ELSE 0,
                              max_sharpe_portfolio     |-> max_sharpe.point[1],
                              min_volatility_portfolio |-> min_vol.point[1],
                              efficient_frontier       |-> frontier.frontier,
                              rebalancing_actions |->
                                 IF cw # NoWeights
                                 THEN RebalancingActions(max_sharpe.point[1].allocations,
                                                         total, 1)
                                 ELSE <<>>]>>,
              warnings |-> max_sharpe.warnings,
              trace    |-> EstimationSteps \o max_sharpe.trace \o min_vol.trace
                               \o frontier.trace
                               \o (IF cw # NoWeights
                                   THEN <<"calculate_covariance_matrix">> ELSE <<>>),
              log      |-> max_sharpe.log \o min_vol.log \o frontier.log]

(* optimize_portfolio(asset_returns, current_values, total_portfolio_value), *)
(* given the outcomes of its solver calls: ms and mv for the two named       *)
(* portfolios, fr for the targets of the frontier                            *)
OptimizePortfolio(assets, values, total, num, ms, mv, fr) ==
    IF PortfolioRejects(assets)
    THEN [error |-> "ValueError", result |-> <<>>, warnings |-> <<>>,
          trace |-> <<>>, log |-> <<>>]
    ELSE PortfolioOutcome(assets, DerivedWeights(assets, values, total), total,
             MaximumSharpe(assets, DerivedWeights(assets, values, total), ms),
             MinimumVolatility(assets, DerivedWeights(assets, values, total), mv),
             EfficientFrontier(assets, num, DerivedWeights(assets, values, total), fr))

-----------------------------------------------------------------------------
(* Inputs of the optimizer *)

MaxAssets == 2
MaxPortfolios == 3

\* an AssetReturn: its monthly returns stand as their annualised mean
AssetAt(i, explicit) ==
    [investment_id   |-> i,
     expected_return |-> IF explicit THEN 5 * i ELSE None,
     annualized_mean |-> 10]

AssetLists ==
    {[i \in 1..n |-> AssetAt(i, explicit)] : n \in 0..MaxAssets, explicit \in BOOLEAN}

\* current_weights of a direct call: none, the even split, all in the first
CurrentWeightChoices(n) ==
    {NoWeights, EqualWeights(n), [i \in 1..n |-> IF i = 1 THEN One ELSE 0]}

\* current_values and total_portfolio_value of optimize_portfolio: values
\* per asset (Missing: no entry for the id) and the total the caller states
Holdings(n) ==
    {<<NoValues, None>>,
     <<[i \in 1..n |-> 30], None>>,
     <<[i \in 1..n |-> 30], 0>>,
     <<[i \in 1..n |-> 30], 30 * n>>,
     <<[i \in 1..n |-> 30], 30>>,
     <<[i \in 1..n |-> IF i = 1 THEN 60 ELSE Missing], 60>>,
     <<[i \in 1..n |-> IF i = 1 THEN 27 ELSE 33], 60>>}

OptimizerCall(assets, cw, num, values, total) ==
    [asset_returns |-> assets, current_weights |-> cw, num_portfolios |-> num,
     current_values |-> values, total_portfolio_value |-> total]

-----------------------------------------------------------------------------
(* Operations of the optimizer *)

optimize_maximum_sharpe ==
    /\ opt_pc = "idle"
    /\ \E assets \in AssetLists :
       \E cw \in CurrentWeightChoices(Len(assets)) :
       \E outcome \in SolverOutcomes(Len(assets)) :
       \E r \in {MaximumSharpe(assets, cw, outcome)} :
              /\ opt_op' = "optimize_maximum_sharpe"
              /\ opt_args' = OptimizerCall(assets, cw, 0, NoValues, None)
              /\ opt_pc' = IF r.error = "" THEN "returned" ELSE "raised"
              /\ opt_error' = r.error
              /\ opt_result' = r.point
              /\ opt_warnings' = r.warnings
              /\ opt_trace' = r.trace
              /\ solver_log' = r.log
    /\ UNCHANGED <<weights, cmpVars, scoreVars, engineVars, fnVars, azVars, scVars, epVars, wkVars>>

optimize_minimum_volatility ==
    /\ opt_pc = "idle"
    /\ \E assets \in AssetLists :
       \E cw \in CurrentWeightChoices(Len(assets)) :
       \E outcome \in SolverOutcomes(Len(assets)) :
       \E r \in {MinimumVolatility(assets, cw, outcome)} :
              /\ opt_op' = "optimize_minimum_volatility"
              /\ opt_args' = OptimizerCall(assets, cw, 0, NoValues, None)
              /\ opt_pc' = IF r.error = "" THEN "returned" ELSE "raised"
              /\ opt_error' = r.error
              /\ opt_result' = r.point
              /\ opt_warnings' = r.warnings
              /\ opt_trace' = r.trace
              /\ solver_log' = r.log
    /\ UNCHANGED <<weights, cmpVars, scoreVars, engineVars, fnVars, azVars, scVars, epVars, wkVars>>

calculate_efficient_frontier ==
    /\ opt_pc = "idle"
    /\ \E assets \in AssetLists :
       \E cw \in CurrentWeightChoices(Len(assets)) :
       \E num \in 0..MaxPortfolios :
       \E outcomes \in [1..num -> SolverOutcomes(Len(assets))] :
       \E r \in {EfficientFrontier(assets, num, cw, outcomes)} :
              /\ opt_op' = "calculate_efficient_frontier"
              /\ opt_args' = OptimizerCall(assets, cw, num, NoValues, None)
              /\ opt_pc' = IF r.error = "" THEN "returned" ELSE "raised"
              /\ opt_error' = r.error
              /\ opt_result' = IF r.error = "" THEN <<r.frontier>> ELSE <<>>
              /\ opt_warnings' = <<>>
              /\ opt_trace' = r.trace
              /\ solver_log' = r.log
    /\ UNCHANGED <<weights, cmpVars, scoreVars, engineVars, fnVars, azVars, scVars, epVars, wkVars>>

\* the frontier of optimize_portfolio has FrontierSize targets; the model
\* follows the first MaxPortfolios of them
optimize_portfolio ==
    /\ opt_pc = "idle"
    /\ \E assets \in AssetLists :
       \E holding \in Holdings(Len(assets)) :
       \E ms \in SolverOutcomes(Len(assets)) :
       \E mv \in SolverOutcomes(Len(assets)) :
       \E fr \in [1..Min(FrontierSize, MaxPortfolios) -> SolverOutcomes(Len(assets))] :
       \E r \in {OptimizePortfolio(assets, holding[1], holding[2],
                                   Min(FrontierSize, MaxPortfolios), ms, mv, fr)} :
              /\ opt_op' = "optimize_portfolio"
              /\ opt_args' = OptimizerCall(assets, NoWeights, Min(FrontierSize, MaxPortfolios),
                                           holding[1], holding[2])
              /\ opt_pc' = IF r.error = "" THEN "returned" ELSE "raised"
              /\ opt_error' = r.error
              /\ opt_result' = r.result
              /\ opt_warnings' = r.warnings
              /\ opt_trace' = r.trace
              /\ solver_log' = r.log
    /\ UNCHANGED <<weights, cmpVars, scoreVars, engineVars, fnVars, azVars, scVars, epVars, wkVars>>

NextOpt ==
    \/ optimize_maximum_sharpe
    \/ optimize_minimum_volatility
    \/ calculate_efficient_frontier
    \/ optimize_portfolio

SpecOpt == InitIdle /\ [][NextOpt]_vars

-----------------------------------------------------------------------------
(* Properties of the optimizer *)

\* every EfficientFrontierPoint in what the operation returned
ReturnedPoints ==
    IF opt_op = "optimize_portfolio"
    THEN <<opt_result[1].max_sharpe_portfolio, opt_result[1].min_volatility_portfolio>>
             \o opt_result[1].efficient_frontier
    ELSE IF opt_op = "calculate_efficient_frontier" THEN opt_result[1]
    ELSE opt_result

OptimalVector(point) ==
    [i \in 1..Len(point.allocations) |-> point.allocations[i].optimal_weight]

CurrentVector(point) ==
    [i \in 1..Len(point.allocations) |-> point.allocations[i].current_weight]

\* every entry in [0, 1] and the entries sum to 1
IsAllocation(w) ==
    /\ \A i \in 1..Len(w) : 0 <= w[i] /\ w[i] <= One
    /\ SumSeq(w) = One

\* the current weight of asset i as the caller stated it
StatedWeight(i) ==
    IF opt_op = "optimize_portfolio"
    THEN IF \/ opt_args.current_values = NoValues
            \/ opt_args.total_portfolio_value \in {None, 0}
         THEN 0
         ELSE IF opt_args.current_values[i] = Missing THEN 0
         ELSE (opt_args.current_values[i] * One) \div opt_args.total_portfolio_value
    ELSE IF opt_args.current_weights = NoWeights THEN 0
    ELSE opt_args.current_weights[i]

C6_EmptyAssetsRejectedFirst ==
    (/\ opt_op = "optimize_portfolio"
     /\ opt_pc # "idle"
     /\ Len(opt_args.asset_returns) = 0)
        => /\ opt_pc = "raised"
           /\ opt_error = "ValueError"
           /\ opt_result = <<>>
           /\ opt_trace = <<>>
           /\ solver_log = <<>>

\* optimize_portfolio was called with no assets and holdings stated
C6_EmptyAssetsCalled ==
    /\ opt_op = "optimize_portfolio"
    /\ opt_pc = "raised"
    /\ Len(opt_args.asset_returns) = 0
    /\ opt_args.total_portfolio_value = 0

\* C7: when the solver reports non-convergence, optimize_maximum_sharpe and
\* optimize_minimum_volatility still return a point, with optimal weight
\* exactly 1/n for each of the n assets; the solver's vector is the optimal
\* weight vector only when it reports success
C7_FallbackIsEqualWeights ==
    (/\ opt_op \in {"optimize_maximum_sharpe", "optimize_minimum_volatility"}
     /\ Len(solver_log) = 1)
        => IF solver_log[1].success
           THEN opt_pc = "returned" => OptimalVector(opt_result[1]) = solver_log[1].x
           ELSE /\ opt_pc = "returned"
                /\ \A i \in 1..Len(opt_args.asset_returns) :
                       opt_result[1].allocations[i].optimal_weight
                           * Len(opt_args.asset_returns) = One

\* C8: whenever optimize_maximum_sharpe or optimize_minimum_volatility
\* returns the equal-weight fallback, a warning was issued
C8_FallbackIsWarned ==
    (/\ opt_op \in {"optimize_maximum_sharpe", "optimize_minimum_volatility"}
     /\ opt_pc = "returned"
     /\ ~solver_log[1].success)
        => opt_warnings # <<>>

-----------------------------------------------------------------------------
(* FinancialMetricsEngine.calculate_portfolio_metrics                      *)
(*                                                                         *)
(* Money is whole units, percentages are hundredths of a percent where the *)
(* code rounds to 2 decimals, and an unrounded quotient is the fraction    *)
(* <<numerator, denominator>>.                                             *)

\* InvestmentCategory, and the "unknown" the routers pass for no category
InvestmentCategories ==
    <<"land", "stocks", "gold", "crypto", "real_estate", "bonds", "other", "unknown">>

\* total_value = sum(m.current_value for m in investments_metrics)
PortfolioValue(ms) == SumSeq([i \in 1..Len(ms) |-> ms[i].current_value])

\* total_invested = sum(m.total_invested for m in investments_metrics)
PortfolioInvested(ms) == SumSeq([i \in 1..Len(ms) |-> ms[i].total_invested])

\* the keys of category_values, in insertion order
RECURSIVE CategoryKeys(_, _)
CategoryKeys(ms, seen) ==
    IF ms = <<>> THEN <<>>
    ELSE IF Head(ms).category \in seen THEN CategoryKeys(Tail(ms), seen)
    ELSE <<Head(ms).category>> \o CategoryKeys(Tail(ms), seen \cup {Head(ms).category})

\* category_values[m.category] = m.current_value
CategoryValuesOverwritten(ms) ==
    [c \in {ms[i].category : i \in 1..Len(ms)} |->
        ms[CHOOSE i \in 1..Len(ms) :
               /\ ms[i].category = c
               /\ \A j \in (i + 1)..Len(ms) : ms[j].category # c].current_value]

\* category_values[m.category] = category_values.get(m.category, 0) + m.current_value
CategoryValues(ms) ==
    [c \in {ms[i].category : i \in 1..Len(ms)} |->
        SumSeq([i \in 1..Len(ms) |->
                   IF ms[i].category = c THEN ms[i].current_value ELSE 0])]

\* round(val / total_value * 100, 2) if total_value > 0 else 0
CategoryAllocation(category_values, total_value) ==
    [c \in DOMAIN category_values |->
        IF total_value > 0
        THEN RoundHalfEven(category_values[c] * 10000, total_value)
        ELSE 0]

\* {"id", "roi"} of the entry at a place of sorted(..., key=simple_roi, reverse=True)
Performer(ms, place) ==
    LET keys == [i \in 1..Len(ms) |-> ms[i].simple_roi]
        i == CHOOSE k \in 1..Len(ms) : SortPosition(keys, k) = place
    IN  [id |-> ms[i].investment_id, roi |-> ms[i].simple_roi * 100]

\* what the rest of calculate_portfolio_metrics makes of the aggregates
PortfolioMetricsOf(ms, total_value, total_invested, category_values) ==
    [total_value           |-> total_value,
     total_invested        |-> total_invested,
     total_absolute_return |-> total_value - total_invested,
     total_roi             |-> IF total_invested > 0
                               THEN <<(total_value - total_invested) * 100, total_invested>>
                               ELSE <<0, 1>>,
     weighted_cagr         |-> IF total_value > 0
                               THEN <<SumSeq([i \in 1..Len(ms) |->
                                          (IF ms[i].cagr \in {None, 0} THEN 0 ELSE ms[i].cagr)
                                              * ms[i].current_value]),
                                      total_value>>
                               ELSE <<0, 1>>,
     category_keys         |-> CategoryKeys(ms, {}),
     category_allocation   |-> CategoryAllocation(category_values, total_value),
     best_performer        |-> <<Performer(ms, 1)>>,
     worst_performer       |-> IF Len(ms) > 1 THEN <<Performer(ms, Len(ms))>> ELSE <<>>]

(* calculate_portfolio_metrics(investments_metrics) *)
PortfolioMetrics(ms) ==
    IF ms = <<>>
    THEN [total_value |-> 0, total_invested |-> 0, total_absolute_return |-> 0,
          total_roi |-> <<0, 1>>, weighted_cagr |-> <<0, 1>>,
          category_keys |-> <<>>, category_allocation |-> <<>>,
          best_performer |-> <<>>, worst_performer |-> <<>>]
    ELSE PortfolioMetricsOf(ms, PortfolioValue(ms), PortfolioInvested(ms),
                            CategoryValues(ms))

MaxHoldings == 7

\* the InvestmentMetrics of holding i: worth 1, 2 or nothing in the category
\* of its place, or worth 3 in land
HoldingAt(i, kind) ==
    [investment_id  |-> i,
     category       |-> IF kind = 4 THEN "land"
                        ELSE InvestmentCategories[((i - 1) % Len(InvestmentCategories)) + 1],
     current_value  |-> CASE kind = 1 -> 1 [] kind = 2 -> 2 [] kind = 3 -> 0 [] kind = 4 -> 3,
     total_invested |-> 1 + (i % 2),
     simple_roi     |-> 10 * (i % 3) - 10,
     cagr           |-> IF i % 2 = 0 THEN None ELSE 5]

RECURSIVE HoldingsFrom(_, _)
HoldingsFrom(kinds, i) ==
    IF i > Len(kinds) THEN <<>>
    ELSE <<HoldingAt(i, kinds[i])>> \o HoldingsFrom(kinds, i + 1)

\* which kind each holding of a list is
HoldingKinds(n) == [1..n -> 1..4]

calculate_portfolio_metrics ==
    /\ pm_pc = "idle"
    /\ \E n \in 0..MaxHoldings :
       \E kinds \in HoldingKinds(n) :
       \E ms \in {HoldingsFrom(kinds, 1)} :
          /\ pm_metrics' = ms
          /\ pm_result' = <<PortfolioMetrics(ms)>>
    /\ pm_pc' = "returned"
    /\ UNCHANGED <<weights, cmpVars, scoreVars, optVars, fnVars, azVars, scVars, epVars, wkVars>>


SpecEngine == InitIdle /\ [][calculate_portfolio_metrics]_vars

-----------------------------------------------------------------------------
(* Properties of the metrics engine *)

-----------------------------------------------------------------------------
(* FinancialMetricsEngine: the static metric functions                     *)
(*                                                                         *)
(* A float the code does not round is the fraction <<numerator,            *)
(* denominator>>; an Optional[float] is Absent or the value.  A rate is in *)
(* hundredths (0.12 is 12) and its percentage in hundredths of a percent.  *)

\* the None an Optional[float] function returns
Absent == <<>>

\* what numpy_financial.irr can hand back besides a rate
NaN == -999997
PosInf == 999999
NegInf == -999996

\* a / b = c / d
FracEq(a, b) == a[1] * b[2] = b[1] * a[2]

\* a / b <= c / d for positive denominators
FracLeq(a, b) == a[1] * b[2] <= b[1] * a[2]

(* calculate_simple_roi(initial, current) *)
CalculateSimpleRoi(initial, current) ==
    IF initial = 0 \/ initial = None THEN <<0, 1>>
    ELSE <<(current - initial) * 100, initial>>

\* the three checks of calculate_irr before it calls the root-finder
IrrDefined(cash_flows) ==
    /\ ~(Len(cash_flows) < 2)
    /\ ~(\A k \in 1..Len(cash_flows) : cash_flows[k] = 0)
    /\ \E k \in 1..Len(cash_flows) : cash_flows[k] > 0
    /\ \E k \in 1..Len(cash_flows) : cash_flows[k] < 0

\* "irr is None or np.isnan(irr)", the infinite values let through
RootIsMissingOrNaN(root) == root = None \/ root = NaN

\* "irr is None or np.isnan(irr) or np.isinf(irr)"
RootUnusable(root) == root = None \/ root = NaN \/ root = PosInf \/ root = NegInf

(* calculate_irr(cash_flows), root being what npf.irr returns when called *)
CalculateIrr(cash_flows, root) ==
    IF ~IrrDefined(cash_flows) THEN Absent
    ELSE IF RootUnusable(root) THEN Absent
    ELSE <<root * 100>>

\* the payback is the number of whole periods before the crossing one
WholePeriods(i, needed, cf) == <<i - 1, 1>>

\* fraction = (initial_investment - previous_cumulative) / cf if cf > 0 else 0;
\* return float(i - 1 + fraction)
InterpolatedPeriods(i, needed, cf) ==
    IF cf > 0 THEN <<(i - 1) * cf + needed, cf>> ELSE <<i - 1, 1>>

\* the loop over cash_flows[1:]: i counts from 1, cumulative is the sum
\* before flow i
RECURSIVE PaybackWalk(_, _, _, _)
PaybackWalk(cash_flows, initial_investment, i, cumulative) ==
    IF i + 1 > Len(cash_flows) THEN Absent
    ELSE IF cumulative + cash_flows[i + 1] >= initial_investment
    THEN InterpolatedPeriods(i, initial_investment - cumulative, cash_flows[i + 1])
    ELSE PaybackWalk(cash_flows, initial_investment, i + 1,
                     cumulative + cash_flows[i + 1])

(* calculate_payback_period(cash_flows) *)
CalculatePaybackPeriod(cash_flows) ==
    IF Len(cash_flows) < 2 THEN Absent
    ELSE IF ~(cash_flows[1] < 0) THEN <<0, 1>>
    ELSE PaybackWalk(cash_flows, -cash_flows[1], 1, 0)

\* the peak stays the first value
PeakHeld(peak, value) == peak

\* "if value > peak: peak = value"
RunningPeak(peak, value) == IF value > peak THEN value ELSE peak

\* the loop of calculate_max_drawdown from value k on
RECURSIVE DrawdownWalk(_, _, _, _)
DrawdownWalk(values, k, peak, max_drawdown) ==
    IF k > Len(values) THEN max_drawdown
    ELSE LET new_peak == RunningPeak(peak, values[k])
             drawdown == IF new_peak > 0
                         THEN <<new_peak - values[k], new_peak>> ELSE <<0, 1>>
         IN  DrawdownWalk(values, k + 1, new_peak,
                          IF FracLeq(drawdown, max_drawdown)
                          THEN max_drawdown ELSE drawdown)

(* calculate_max_drawdown(values), as a percentage *)
CalculateMaxDrawdown(values) ==
    IF Len(values) < 2 THEN Absent
    ELSE LET max_drawdown == DrawdownWalk(values, 1, values[1], <<0, 1>>)
         IN  <<max_drawdown[1] * 100, max_drawdown[2]>>

MaxFlows == 4
MaxValues == 4

calculate_simple_roi ==
    /\ fn_pc = "idle"
    /\ \E initial \in {None, -100, -1, 0, 1, 50, 100},
          current \in {-50, 0, 50, 100, 150} :
          /\ fn_args' = <<initial, current>>
          /\ fn_result' = CalculateSimpleRoi(initial, current)
    /\ fn_op' = "calculate_simple_roi"
    /\ fn_root' = <<>>
    /\ fn_pc' = "returned"
    /\ UNCHANGED <<weights, cmpVars, scoreVars, optVars, engineVars, azVars, scVars, epVars, wkVars>>

calculate_irr ==
    /\ fn_pc = "idle"
    /\ \E n \in 0..MaxFlows :
       \E cash_flows \in [1..n -> {-1000, 0, 100, 400, 500, 1000}] :
       \E root \in {None, NaN, PosInf, NegInf, -50, 0, 12} :
          /\ fn_args' = cash_flows
          /\ fn_root' = IF IrrDefined(cash_flows) THEN <<root>> ELSE <<>>
          /\ fn_result' = CalculateIrr(cash_flows, root)
    /\ fn_op' = "calculate_irr"
    /\ fn_pc' = "returned"
    /\ UNCHANGED <<weights, cmpVars, scoreVars, optVars, engineVars, azVars, scVars, epVars, wkVars>>

calculate_payback_period ==
    /\ fn_pc = "idle"
    /\ \E n \in 0..MaxFlows :
       \E cash_flows \in [1..n -> {-1000, 0, 100, 400, 500, 1000}] :
          /\ fn_args' = cash_flows
          /\ fn_result' = CalculatePaybackPeriod(cash_flows)
    /\ fn_op' = "calculate_payback_period"
    /\ fn_root' = <<>>
    /\ fn_pc' = "returned"
    /\ UNCHANGED <<weights, cmpVars, scoreVars, optVars, engineVars, azVars, scVars, epVars, wkVars>>

calculate_max_drawdown ==
    /\ fn_pc = "idle"
    /\ \E n \in 0..MaxValues :
       \E values \in [1..n -> {-10, 0, 50, 80, 100, 200}] :
          /\ fn_args' = values
          /\ fn_result' = CalculateMaxDrawdown(values)
    /\ fn_op' = "calculate_max_drawdown"
    /\ fn_root' = <<>>
    /\ fn_pc' = "returned"
    /\ UNCHANGED <<weights, cmpVars, scoreVars, optVars, engineVars, azVars, scVars, epVars, wkVars>>

NextFunctions ==
    \/ calculate_simple_roi
    \/ calculate_irr
    \/ calculate_payback_period
    \/ calculate_max_drawdown

SpecFunctions == InitIdle /\ [][NextFunctions]_vars

-----------------------------------------------------------------------------
(* Properties of the static metric functions *)

\* C11: calculate_simple_roi returns 0 for every initial <= 0 and
\* ((current - initial) / initial) * 100 for every initial > 0
C11_RoiZeroForNonPositiveInitial ==
    (fn_op = "calculate_simple_roi" /\ fn_pc = "returned" /\ fn_args[1] # None) =>
        IF fn_args[1] <= 0
        THEN fn_result[1] = 0
        ELSE FracEq(fn_result, <<(fn_args[2] - fn_args[1]) * 100, fn_args[1]>>)

\* C12: calculate_irr never raises; it returns None without a value from the
\* root-finder when there are fewer than 2 flows, all flows are zero, or no
\* flow is strictly positive or none strictly negative, and returns None
\* when the root-finder yields None, NaN or an infinite value
C12_IrrAbsentWhenUndefined ==
    (fn_op = "calculate_irr" /\ fn_pc # "idle") =>
        /\ fn_pc = "returned"
        /\ (\/ Len(fn_args) < 2
            \/ \A k \in 1..Len(fn_args) : fn_args[k] = 0
            \/ ~\E k \in 1..Len(fn_args) : fn_args[k] > 0
            \/ ~\E k \in 1..Len(fn_args) : fn_args[k] < 0)
               => fn_result = Absent /\ fn_root = <<>>
        /\ (fn_root # <<>> /\ fn_root[1] \in {None, NaN, PosInf, NegInf})
               => fn_result = Absent

\* an outflow and two inflows for which the root-finder returned infinity
C12_RootFinderDiverged ==
    /\ fn_op = "calculate_irr"
    /\ fn_pc = "returned"
    /\ fn_args = <<-1000, 400, 500>>
    /\ fn_root = <<PosInf>>

\* the sum of the flows after the first, up to flow i of them
CumulativeInflow(cash_flows, i) ==
    SumSeq([k \in 1..i |-> cash_flows[k + 1]])

\* the payback of the flows when amount is to be recovered: Absent, or
\* (i - 1) + (amount - cumulative before flow i) / flow_i at the first i
\* whose cumulative sum reaches amount
PaybackOf(cash_flows, amount) ==
    LET reached == {i \in 1..(Len(cash_flows) - 1) :
                       CumulativeInflow(cash_flows, i) >= amount}
        i == CHOOSE m \in reached : \A o \in reached : m <= o
    IN  IF reached = {} THEN Absent
        ELSE <<(i - 1) * cash_flows[i + 1] + amount
                   - CumulativeInflow(cash_flows, i - 1),
               cash_flows[i + 1]>>

SamePayback(a, b) ==
    IF a = Absent \/ b = Absent THEN a = b ELSE FracEq(a, b)

\* C13 as stated: calculate_payback_period recovers the magnitude of the
\* first cash flow over the later flows, interpolating within the crossing
\* period, and returns None when it is never recovered or there are fewer
\* than 2 flows
C13_PaybackOfFirstFlowMagnitude ==
    (fn_op = "calculate_payback_period" /\ fn_pc = "returned") =>
        IF Len(fn_args) < 2 THEN fn_result = Absent
        ELSE SamePayback(fn_result, PaybackOf(fn_args, Abs(fn_args[1])))

\* C13 amended: when the first cash flow is negative its magnitude is the
\* amount to recover, as stated; when the first cash flow is zero or
\* positive there is nothing to recover and the result is 0
C13_PaybackOfInitialOutflow ==
    (fn_op = "calculate_payback_period" /\ fn_pc = "returned") =>
        IF Len(fn_args) < 2 THEN fn_result = Absent
        ELSE IF fn_args[1] < 0
        THEN SamePayback(fn_result, PaybackOf(fn_args, -fn_args[1]))
        ELSE fn_result # Absent /\ fn_result[1] = 0

\* 1000 recovered half-way through the third flow of 400: 2.5 periods
C13_RecoveredWithinThirdFlow ==
    /\ fn_op = "calculate_payback_period"
    /\ fn_pc = "returned"
    /\ fn_args = <<-1000, 400, 400, 400>>
    /\ FracEq(fn_result, <<5, 2>>)

\* C14: for at least 2 positive values calculate_max_drawdown returns 100
\* times the largest (values[i] - values[j]) / values[i] over i <= j, a
\* number in [0, 100); for fewer than 2 values it returns None
C14_MaxDrawdownIsLargestDecline ==
    (fn_op = "calculate_max_drawdown" /\ fn_pc = "returned") =>
        IF Len(fn_args) < 2 THEN fn_result = Absent
        ELSE (\A k \in 1..Len(fn_args) : fn_args[k] > 0) =>
            /\ fn_result # Absent
            /\ \E i \in 1..Len(fn_args) : \E j \in i..Len(fn_args) :
                   FracEq(fn_result, <<(fn_args[i] - fn_args[j]) * 100, fn_args[i]>>)
            /\ \A i \in 1..Len(fn_args) : \A j \in i..Len(fn_args) :
                   FracLeq(<<(fn_args[i] - fn_args[j]) * 100, fn_args[i]>>, fn_result)
            /\ FracLeq(<<0, 1>>, fn_result)
            /\ ~FracLeq(<<100, 1>>, fn_result)

\* a fall from the second value, the peak, to the third: 75 percent
C14_DeclineFromLaterPeak ==
    /\ fn_op = "calculate_max_drawdown"
    /\ fn_pc = "returned"
    /\ fn_args = <<100, 200, 50, 80>>
    /\ FracEq(fn_result, <<75, 1>>)

-----------------------------------------------------------------------------
(* FinancialMetricsEngine.analyze_investment                               *)
(*                                                                         *)
(* A date is a day number.  A power, a standard deviation, a percentile    *)
(* and a net present value are kept as terms over their arguments.         *)

\* BENCHMARK_RATES, in hundredths of a percent
INFLATION_BR == 450
CDI_BR == 1075
SP500_HISTORICAL == 1000

\* years_held = holding_period_days / 365
YearsHeldOfCalendarYears(holding_period_days) == <<holding_period_days, 365>>

\* years_held = holding_period_days / 365.25
YearsHeld(holding_period_days) == <<holding_period_days * 100, 36525>>

\* ((current / initial) ** (1 / years) - 1) * 100 as a term; every growth
\* over a ratio of 1 is the number 0, and every growth over a ratio of 0 is
\* the same total loss
Growth(current, initial, years) ==
    IF current = initial THEN <<0>>
    ELSE IF current = 0 THEN <<0, 1, <<1, 1>>>>
    ELSE <<current, initial, years>>

\* max(years_held, 0.01)
AtLeastHundredth(years) == IF FracLeq(years, <<1, 100>>) THEN <<1, 100>> ELSE years

(* calculate_cagr(initial, current, years) *)
CalculateCagr(initial, current, years) ==
    IF initial <= 0 \/ years[1] <= 0 THEN <<0>>
    ELSE Growth(current, initial, years)

\* sorted(items, key=date): the indices of the items, earliest first, equal
\* dates in their original order
SortedByDate(items) ==
    LET pos(i) == 1 + Cardinality({j \in 1..Len(items) :
                        \/ items[j].date < items[i].date
                        \/ items[j].date = items[i].date /\ j < i})
    IN  [p \in 1..Len(items) |-> CHOOSE i \in 1..Len(items) : pos(i) = p]

\* the amounts of the cash flows in the order supplied
FlowsAsSupplied(cash_flows) ==
    [p \in 1..Len(cash_flows) |-> cash_flows[p].amount]

\* "sorted_flows = sorted(cash_flows, key=lambda x: x.date)" and the amounts
\* appended from it
FlowsByDate(cash_flows) ==
    [p \in 1..Len(cash_flows) |-> cash_flows[SortedByDate(cash_flows)[p]].amount]

\* cf_list: the initial outflow, the flows by date, the current value if positive
CashFlowVector(purchase_price, current_value, cash_flows) ==
    <<-Abs(purchase_price)>>
        \o (IF cash_flows # <<>> THEN FlowsByDate(cash_flows) ELSE <<>>)
        \o (IF current_value > 0 THEN <<current_value>> ELSE <<>>)

\* values = [v for _, v in sorted_history]
HistoryValues(valuation_history) ==
    [p \in 1..Len(valuation_history) |->
        valuation_history[SortedByDate(valuation_history)[p]].value]

\* the periodic returns of the values from index i on, skipping a period
\* that starts at a value that is not positive
RECURSIVE PeriodReturns(_, _)
PeriodReturns(values, i) ==
    IF i > Len(values) THEN <<>>
    ELSE (IF values[i - 1] > 0
          THEN <<<<values[i] - values[i - 1], values[i - 1]>>>>
          ELSE <<>>) \o PeriodReturns(values, i + 1)

(* calculate_volatility(returns) *)
CalculateVolatility(returns) ==
    IF Len(returns) < 2 THEN Absent ELSE <<"std", returns>>

(* calculate_sharpe_ratio(returns, risk_free_rate) *)
CalculateSharpeRatio(returns, risk_free_rate) ==
    IF Len(returns) < 2 THEN Absent
    \* np.std(returns, ddof=1) == 0: all returns are the same
    ELSE IF \A i, j \in 1..Len(returns) : FracEq(returns[i], returns[j]) THEN Absent
    ELSE <<"sharpe", returns, risk_free_rate>>

\* the 5th percentile of any sample, however small
CalculateVar95OfAnySample(returns) == <<"percentile", returns>>

(* calculate_var_95(returns) *)
CalculateVar95(returns) ==
    IF Len(returns) < 5 THEN Absent ELSE <<"percentile", returns>>

(* calculate_npv(cash_flows, discount_rate) *)
CalculateNpv(cash_flows, discount_rate) ==
    IF cash_flows = <<>> THEN <<0>> ELSE <<"npv", discount_rate, cash_flows>>

\* the holding period counted to a fixed day 0, whatever the day of the call
HoldingPeriodToEpoch(day, purchase_date) == 0 - purchase_date

\* holding_period_days = (today - purchase_date).days
HoldingPeriodDays(day, purchase_date) == day - purchase_date

\* the risk block: <<volatility, sharpe, var_95, max_dd, returns>>
RiskMetrics(valuation_history) ==
    IF valuation_history # <<>> /\ Len(valuation_history) > 1
    THEN LET values == HistoryValues(valuation_history)
             returns == PeriodReturns(values, 2)
         IN  IF returns # <<>>
             THEN <<CalculateVolatility(returns),
                    CalculateSharpeRatio(returns, CDI_BR),
                    CalculateVar95(returns),
                    CalculateMaxDrawdown(values), returns>>
             ELSE <<Absent, Absent, Absent, CalculateMaxDrawdown(values), returns>>
    ELSE <<Absent, Absent, Absent, Absent, <<>>>>

\* vs_inflation: the real annual return as a term when time has passed,
\* else simple_roi less the inflation rate
VsInflation(purchase_price, current_value, holding_period_days, simple_roi) ==
    IF holding_period_days > 0
    THEN <<"real", Growth(current_value, purchase_price,
                          YearsHeld(holding_period_days)), INFLATION_BR>>
    ELSE <<simple_roi[1] * 100 - INFLATION_BR * simple_roi[2], simple_roi[2] * 100>>

\* "(cagr - BENCHMARK_RATES[...] * 100) if cagr else None"
VsBenchmark(cagr, rate) == IF cagr = <<0>> THEN Absent ELSE <<"minus", cagr, rate>>

\* the InvestmentMetrics built at the return statement; the identifier, the
\* name, the category and the currency are copied from the arguments
InvestmentMetrics(args, day, root) ==
    LET holding_period_days == HoldingPeriodDays(day, args.purchase_date)
        years_held == YearsHeld(holding_period_days)
        simple_roi == CalculateSimpleRoi(args.purchase_price, args.current_value)
        cagr == CalculateCagr(args.purchase_price, args.current_value,
                              AtLeastHundredth(years_held))
        cf_list == CashFlowVector(args.purchase_price, args.current_value,
                                  args.cash_flows)
        risk == RiskMetrics(args.valuation_history)
    IN  [total_invested |-> args.purchase_price,
         current_value |-> args.current_value,
         absolute_return |-> args.current_value - args.purchase_price,
         simple_roi |-> simple_roi,
         annualized_roi |-> cagr,
         cagr |-> cagr,
         irr |-> CalculateIrr(cf_list, root),
         npv |-> CalculateNpv(cf_list, CDI_BR),
         payback_period_months |-> CalculatePaybackPeriod(cf_list),
         sharpe_ratio |-> risk[2],
         volatility |-> risk[1],
         max_drawdown |-> risk[4],
         var_95 |-> risk[3],
         vs_inflation |-> VsInflation(args.purchase_price, args.current_value,
                                      holding_period_days, simple_roi),
         vs_cdi |-> VsBenchmark(cagr, CDI_BR),
         vs_sp500 |-> VsBenchmark(cagr, SP500_HISTORICAL),
         years_held |-> years_held,
         holding_period_days |-> holding_period_days,
         calculation_date |-> day]

(* analyze_investment(...) called on the given day, root being what npf.irr *)
(* returns when called: the error raised, or the metrics returned           *)
AnalyzeInvestment(args, day, root) ==
    \* "(current_value / purchase_price) ** (1 / years_held) - 1" divides by zero
    IF HoldingPeriodDays(day, args.purchase_date) > 0 /\ args.purchase_price = 0
    THEN [error |-> "ZeroDivisionError", metrics |-> <<>>]
    ELSE [error |-> "", metrics |-> <<InvestmentMetrics(args, day, root)>>]

MaxDay == 1
MaxCashFlows == 2
MaxHistory == 6

\* n (date, value) pairs of the given shape, supplied latest first if descending
ShapedHistory(shape, n, descending) ==
    LET value(k) == CASE shape = "swing" -> IF k % 2 = 1 THEN 100 ELSE 110
                      [] shape = "flat" -> 100
                      [] shape = "gap" -> IF k = 2 THEN 0 ELSE 100
                      [] OTHER -> 0
        at(k) == IF descending THEN n + 1 - k ELSE k
    IN  [k \in 1..n |-> [date |-> at(k), value |-> value(at(k))]]

\* the valuation histories of n points the engine is called with
ValuationHistories(n) ==
    IF n <= 2
    THEN [1..n -> [date : {1, 2}, value : {0, 100, 110}]]
    ELSE {ShapedHistory(shape, n, descending) :
            shape \in {"swing", "flat", "gap", "worthless"}, descending \in BOOLEAN}

\* the CashFlow lists of n entries the engine is called with
CashFlowLists(n) == [1..n -> [date : {1, 2}, amount : {-50, 30}]]

\* the state left by one call of analyze_investment on this day
AnalysisOutcome(args, root, r) ==
    /\ az_args' = args
    /\ az_day' = today
    /\ az_cf_list' = CashFlowVector(args.purchase_price, args.current_value,
                                    args.cash_flows)
    /\ az_root' = IF IrrDefined(az_cf_list') THEN <<root>> ELSE <<>>
    /\ az_returns' = RiskMetrics(args.valuation_history)[5]
    /\ az_cash_flows' = args.cash_flows
    /\ az_error' = r.error
    /\ az_result' = r.metrics
    /\ az_pc' = IF r.error = "" THEN "returned" ELSE "raised"

analyze_investment ==
    /\ az_pc = "idle"
    /\ \E purchase_price \in {-100, 0, 100}, current_value \in {0, 100, 150},
          purchase_date \in {-366, 0, 1}, root \in {NaN, 12},
          nf \in 0..MaxCashFlows, nh \in 0..MaxHistory :
          /\ nf = 0 \/ nh = 0
          /\ \E cash_flows \in CashFlowLists(nf),
                valuation_history \in ValuationHistories(nh) :
             \E args \in {[purchase_price |-> purchase_price,
                           current_value |-> current_value,
                           purchase_date |-> purchase_date,
                           cash_flows |-> cash_flows,
                           valuation_history |-> valuation_history]} :
             \E r \in {AnalyzeInvestment(args, today, root)} :
                AnalysisOutcome(args, root, r)
    /\ UNCHANGED <<today, az_again>>
    /\ UNCHANGED <<weights, cmpVars, scoreVars, optVars, engineVars, fnVars, scVars, epVars, wkVars>>

\* midnight: date.today() returns the next day from now on
day_passes ==
    /\ today < MaxDay
    /\ today' = today + 1
    /\ UNCHANGED <<az_pc, az_day, az_args, az_root, az_error, az_result,
                   az_cf_list, az_returns, az_cash_flows, az_again>>
    /\ UNCHANGED <<weights, cmpVars, scoreVars, optVars, engineVars, fnVars, scVars, epVars, wkVars>>

\* analyze_investment called once more with the arguments of the first call
analyze_investment_again ==
    /\ az_pc # "idle"
    /\ az_again = <<>>
    /\ \E root \in IF az_root = <<>> THEN {NaN} ELSE {az_root[1]} :
       \E r \in {AnalyzeInvestment(az_args, today, root)} :
          az_again' = <<[day |-> today, error |-> r.error, result |-> r.metrics]>>
    /\ UNCHANGED <<today, az_pc, az_day, az_args, az_root, az_error, az_result,
                   az_cf_list, az_returns, az_cash_flows>>
    /\ UNCHANGED <<weights, cmpVars, scoreVars, optVars, engineVars, fnVars, scVars, epVars, wkVars>>

NextAnalyze ==
    \/ analyze_investment
    \/ day_passes
    \/ analyze_investment_again

SpecAnalyze == InitIdle /\ [][NextAnalyze]_vars

-----------------------------------------------------------------------------
(* Claims about analyze_investment, checked on SpecAnalyze *)

\* every InvestmentMetrics the model holds: the first call's and the later call's
ReturnedMetrics ==
    {az_result[k] : k \in 1..Len(az_result)}
        \cup (IF az_again = <<>> THEN {}
              ELSE {az_again[1].result[k] : k \in 1..Len(az_again[1].result)})

\* C15: every InvestmentMetrics returned by analyze_investment has
\* total_invested equal to the purchase_price argument, absolute_return equal
\* to current_value - total_invested and years_held equal to
\* holding_period_days / 365.25 (that is, years_held * 1461 = days * 4).
C15_AbsoluteReturnAndYearsHeld ==
    \A m \in ReturnedMetrics :
        /\ m.total_invested = az_args.purchase_price
        /\ m.current_value = az_args.current_value
        /\ m.absolute_return = m.current_value - m.total_invested
        /\ m.years_held[1] * 1461 = m.holding_period_days * 4 * m.years_held[2]

\* C15 witness: a purchase of 100 made 366 days before the call, worth 150
C15_HeldForAYearAndADay ==
    /\ az_pc = "returned"
    /\ az_result[1].holding_period_days = 366
    /\ az_result[1].total_invested = 100
    /\ az_result[1].absolute_return = 50

\* C16: in every result a risk field is present only when its sample is
\* large enough: volatility and sharpe_ratio need 2 period returns derived
\* from the valuation history, var_95 needs 5, max_drawdown needs a history
\* of 2 points, and with a history missing or shorter than 2 points all four
\* are absent.
C16_RiskFieldsNeedTheirSample ==
    \A m \in ReturnedMetrics :
        /\ m.volatility # Absent => Len(az_returns) >= 2
        /\ m.sharpe_ratio # Absent => Len(az_returns) >= 2
        /\ m.var_95 # Absent => Len(az_returns) >= 5
        /\ m.max_drawdown # Absent => Len(az_args.valuation_history) >= 2
        /\ Len(az_args.valuation_history) < 2 =>
              /\ m.volatility = Absent
              /\ m.sharpe_ratio = Absent
              /\ m.var_95 = Absent
              /\ m.max_drawdown = Absent

\* C16 witness: six valuations, one of them 0, give four period returns:
\* volatility and max_drawdown are present, var_95 is not
C16_SixPointsFourReturns ==
    /\ az_pc = "returned"
    /\ Len(az_args.valuation_history) = 6
    /\ Len(az_returns) = 4
    /\ az_result[1].volatility # Absent
    /\ az_result[1].max_drawdown # Absent
    /\ az_result[1].var_95 = Absent

\* C17: analyze_investment called with purchase_price = 0 and any
\* purchase_date, one in the past included, does not raise: it returns
\* metrics with simple_roi = 0 and cagr = 0.
C17_ZeroPurchasePriceReturns ==
    (az_pc # "idle" /\ az_args.purchase_price = 0) =>
        /\ az_pc = "returned"
        /\ az_result[1].simple_roi[1] = 0
        /\ az_result[1].cagr = <<0>>

\* both the first call and the later call with the same arguments returned
BothReturned == az_again # <<>> /\ az_result # <<>> /\ az_again[1].result # <<>>

Orderings(n) ==
    {f \in [1..n -> 1..n] : \A i, j \in 1..n : i # j => f[i] # f[j]}

\* the metrics of the first call, none if it raised
FirstMetrics == {az_result[k] : k \in 1..Len(az_result)}

\* C20: the vector analyze_investment hands to IRR, NPV and payback starts
\* with -|purchase_price|, continues with the amounts of the supplied cash
\* flows in non-decreasing date order whatever order they came in, and ends
\* with current_value exactly when current_value > 0; the caller's cash_flows
\* list is as it was.
C20_CashFlowVectorByDate ==
    az_pc # "idle" =>
        LET flows == az_args.cash_flows
            n == Len(flows)
        IN  /\ az_cf_list[1] = -Abs(az_args.purchase_price)
            /\ Len(az_cf_list) = 1 + n + (IF az_args.current_value > 0 THEN 1 ELSE 0)
            /\ \E order \in Orderings(n) :
                  /\ \A k \in 1..(n - 1) :
                        flows[order[k]].date <= flows[order[k + 1]].date
                  /\ \A k \in 1..n : az_cf_list[1 + k] = flows[order[k]].amount
            /\ az_args.current_value > 0 =>
                  az_cf_list[Len(az_cf_list)] = az_args.current_value
            /\ az_cash_flows = flows
            /\ \A m \in FirstMetrics :
                  /\ m.irr = IF IrrDefined(az_cf_list)
                             THEN CalculateIrr(az_cf_list, az_root[1]) ELSE Absent
                  /\ m.npv = CalculateNpv(az_cf_list, CDI_BR)
                  /\ m.payback_period_months = CalculatePaybackPeriod(az_cf_list)

\* C20 witness: an inflow of 30 dated day 2 supplied before an outflow of 50
\* dated day 1, for a purchase of 100 now worth 150
C20_LaterFlowSuppliedFirst ==
    /\ az_pc = "returned"
    /\ az_args.cash_flows = <<[date |-> 2, amount |-> 30], [date |-> 1, amount |-> -50]>>
    /\ az_cash_flows = az_args.cash_flows
    /\ az_cf_list = <<-100, -50, 30, 150>>

-----------------------------------------------------------------------------
(* InvestmentComparator.run_scenarios                                      *)
(*                                                                         *)
(* Amounts are whole numbers and impacts whole percentages; what to_dict   *)
(* rounds to two decimals is kept in hundredths.  Investment k has id k.   *)

\* "if scenarios is None": the four default scenarios
DefaultScenarios ==
    <<[name |-> "market_crash", impact_pct |-> -20],
      [name |-> "market_correction", impact_pct |-> -10],
      [name |-> "market_boom", impact_pct |-> 30],
      [name |-> "inflation_spike", impact_pct |-> -5]>>

\* scenarios is None
NoScenarios == <<[name |-> "", impact_pct |-> None]>>

\* total_value = sum(inv.get("current_value", 0) for inv in investments)
ScenarioTotalValue(invs) ==
    SumSeq([k \in 1..Len(invs) |-> Get(invs[k].current_value, 0)])

\* zip(investments, metrics_list): as many pairs as the shorter list has
Zipped(invs, mlist) == Min(Len(invs), Len(mlist))

\* new_value = current_value * (1 + impact), in hundredths
ProjectedValue(inv, impact_pct) ==
    Get(inv.current_value, 0) * (100 + impact_pct)

\* new_roi = ((new_value - purchase_price) / purchase_price) * 100 if
\* purchase_price > 0 else 0, rounded to two decimals, in hundredths
ProjectedRoi(inv, impact_pct) ==
    LET purchase_price == Get(inv.purchase_price, 0)
    IN  IF purchase_price > 0
        THEN RoundHalfEven(100 * (ProjectedValue(inv, impact_pct) - 100 * purchase_price),
                           purchase_price)
        ELSE 0

\* portfolio_impact, rounded to two decimals, in hundredths; total_projected
\* is summed over the zipped pairs
PortfolioImpact(invs, mlist, impact_pct) ==
    LET total_value == ScenarioTotalValue(invs)
        total_projected == SumSeq([k \in 1..Zipped(invs, mlist) |->
                                      ProjectedValue(invs[k], impact_pct)])
    IN  IF total_value > 0
        THEN RoundHalfEven(100 * (total_projected - 100 * total_value), total_value)
        ELSE 0

\* ScenarioResult(...).to_dict() for one scenario
ScenarioResult(invs, mlist, scenario) ==
    [name |-> scenario.name,
     impact_pct |-> scenario.impact_pct,
     portfolio_impact |-> PortfolioImpact(invs, mlist, scenario.impact_pct),
     investment_impacts |->
        [k \in 1..Zipped(invs, mlist) |->
            [projected_value |-> ProjectedValue(invs[k], scenario.impact_pct),
             projected_roi |-> ProjectedRoi(invs[k], scenario.impact_pct)]]]

(* run_scenarios(investments, metrics_list, scenarios): the results keyed by *)
(* scenario name, a later scenario replacing an earlier one of the same name *)
RunScenarios(invs, mlist, scenarios) ==
    LET run == IF scenarios = NoScenarios THEN DefaultScenarios ELSE scenarios
        names == {run[k].name : k \in 1..Len(run)}
        last(name) == CHOOSE k \in 1..Len(run) :
                        /\ run[k].name = name
                        /\ \A j \in (k + 1)..Len(run) : run[j].name # name
    IN  [name \in names |-> ScenarioResult(invs, mlist, run[last(name)])]

MaxScenarioInvestments == 2
MaxScenarios == 2

\* the investment dicts run_scenarios is called with
ScenarioInvestments ==
    [current_value : {Missing, 100, 250}, purchase_price : {-50, 0, 80}]

\* the custom scenario dicts it is called with; two share a name
CustomScenarios ==
    {[name |-> "mild_decline", impact_pct |-> -5],
     [name |-> "strong_growth", impact_pct |-> 50],
     [name |-> "mild_decline", impact_pct |-> 10]}

run_scenarios ==
    /\ sc_pc = "idle"
    /\ \E n \in 0..MaxScenarioInvestments, s \in 0..MaxScenarios :
       \E invs \in [1..n -> ScenarioInvestments], m \in 0..n,
          scenarios \in [1..s -> CustomScenarios] \cup {NoScenarios} :
       \* a metrics_list of m dicts, whose contents run_scenarios never reads
       \E mlist \in {[k \in 1..m |-> <<>>]} :
          /\ sc_args' = [investments |-> invs, metrics_list |-> mlist,
                         scenarios |-> scenarios]
          /\ sc_result' = RunScenarios(invs, mlist, scenarios)
    /\ sc_pc' = "returned"
    /\ UNCHANGED <<weights, cmpVars, scoreVars, optVars, engineVars, fnVars, azVars, epVars, wkVars>>

SpecScenarios == InitIdle /\ [][run_scenarios]_vars

-----------------------------------------------------------------------------
(* Claims about run_scenarios, checked on SpecScenarios *)

\* C19: for every scenario run, every investment has a projected value of
\* current_value * (1 + impact_pct / 100) and a projected ROI computed
\* against its purchase_price (0 when purchase_price <= 0), and
\* portfolio_impact is impact_pct when the total current value is positive
\* and 0 otherwise.
C19_UniformShockOnEveryInvestment ==
    sc_pc = "returned" =>
        \A name \in DOMAIN sc_result :
            LET result == sc_result[name]
                invs == sc_args.investments
            IN  /\ Len(result.investment_impacts) = Len(invs)
                /\ \A k \in 1..Len(invs) :
                      /\ result.investment_impacts[k].projected_value
                            = Get(invs[k].current_value, 0) * (100 + result.impact_pct)
                      /\ result.investment_impacts[k].projected_roi
                            = ProjectedRoi(invs[k], result.impact_pct)
                      /\ Get(invs[k].purchase_price, 0) <= 0 =>
                            result.investment_impacts[k].projected_roi = 0
                /\ result.portfolio_impact
                      = IF ScenarioTotalValue(invs) > 0
                        THEN 100 * result.impact_pct ELSE 0

-----------------------------------------------------------------------------
(* Further claims about analyze_investment, checked on SpecAnalyze *)

\* C21: in every analyze_investment result cagr is a number, and vs_cdi is
\* cagr - 10.75 and vs_sp500 is cagr - 10.0 for every such number, 0 included;
\* neither is absent.
C21_BenchmarkDifferencesOfCagr ==
    \A m \in ReturnedMetrics :
        /\ m.vs_cdi = <<"minus", m.cagr, CDI_BR>>
        /\ m.vs_sp500 = <<"minus", m.cagr, SP500_HISTORICAL>>

-----------------------------------------------------------------------------
(* Further claims about compare_investments, checked on SpecCompare *)

\* C22: an investment's risk-adjusted score is defined, and is
\* cagr / max_drawdown, exactly when its max_drawdown is > 0, for every
\* numeric cagr, 0 and negative ones included; risk_adjusted_ranking holds
\* exactly the investments with a defined score, by non-increasing score,
\* with ranks 1..k.
C22_CalmarWheneverDrawdownPositive ==
    cmp_pc = "returned" =>
        LET res == cmp_result[1]
            rar == res.risk_adjusted_ranking
            n == Len(res.rankings)
            numeric(v) == v # Missing /\ v # None
            defined == {k \in 1..n :
                          /\ numeric(res.rankings[k].metrics.cagr)
                          /\ numeric(res.rankings[k].metrics.max_drawdown)
                          /\ res.rankings[k].metrics.max_drawdown > 0}
        IN  /\ \A k \in 1..n :
                  IF k \in defined
                  THEN res.rankings[k].risk_adjusted_score
                          = <<res.rankings[k].metrics.cagr,
                              res.rankings[k].metrics.max_drawdown>>
                  ELSE res.rankings[k].risk_adjusted_score = <<>>
            /\ {rar[p].investment_id : p \in 1..Len(rar)}
                  = {res.rankings[k].investment_id : k \in defined}
            /\ Len(rar) = Cardinality(defined)
            /\ \A p \in 1..Len(rar) : rar[p].rank = p
            /\ \A p \in 1..(Len(rar) - 1) :
                  rar[p].cagr * rar[p + 1].max_drawdown
                      >= rar[p + 1].cagr * rar[p].max_drawdown

-----------------------------------------------------------------------------
(* Further claims about optimize_portfolio, checked on SpecOpt *)

\* optimize_portfolio returned for a call that stated current values and a total
ReturnedWithCurrentWeights ==
    /\ opt_op = "optimize_portfolio"
    /\ opt_pc = "returned"
    /\ opt_args.current_values # NoValues
    /\ opt_args.total_portfolio_value # None
    /\ opt_args.total_portfolio_value # 0

-----------------------------------------------------------------------------
(* Claims about the rankings of compare_investments, checked on SpecCompare *)

\* the scored investment made of input entry i, in a returned comparison
ScoredAt(i) ==
    LET r == cmp_result[1].rankings
    IN  r[CHOOSE k \in 1..Len(r) : r[k].investment_id = investments[i].id]

\* rank b follows from keys when a strictly larger key gets a strictly
\* smaller rank and equal keys are ranked in input order
RankedStably(key(_), rank(_)) ==
    \A a, b \in 1..Len(investments) :
        /\ key(a) > key(b) => rank(a) < rank(b)
        /\ (key(a) = key(b) /\ a < b) => rank(a) < rank(b)

\* C24: in each of the four rankings of compare_investments (ROI, CAGR,
\* Sharpe, composite) a strictly larger key gets a strictly smaller rank, and
\* investments with equal keys, a missing or None metric counting as 0, are
\* ranked in the order of the input list.
C24_RanksFollowKeysThenInputOrder ==
    cmp_pc = "returned" =>
        LET roi(i) == IF metrics_list[i].simple_roi \in {Missing, None}
                      THEN 0 ELSE metrics_list[i].simple_roi
            cagr(i) == IF metrics_list[i].cagr \in {Missing, None}
                       THEN 0 ELSE metrics_list[i].cagr
            sharpe(i) == IF metrics_list[i].sharpe_ratio \in {Missing, None}
                         THEN 0 ELSE metrics_list[i].sharpe_ratio
            composite(i) == ScoredAt(i).composite_score
            roi_rank(i) == ScoredAt(i).roi_rank
            cagr_rank(i) == ScoredAt(i).cagr_rank
            sharpe_rank(i) == ScoredAt(i).sharpe_rank
            composite_rank(i) == ScoredAt(i).composite_rank
        IN  /\ RankedStably(roi, roi_rank)
            /\ RankedStably(cagr, cagr_rank)
            /\ RankedStably(sharpe, sharpe_rank)
            /\ RankedStably(composite, composite_rank)

\* C24 witness: a negative ROI first in the list, then a missing one and a
\* None one: the two zeros take ranks 1 and 2 in input order
C24_ZeroKeysInInputOrder ==
    /\ cmp_pc = "returned"
    /\ Len(investments) = 3
    /\ metrics_list[1].simple_roi = -10
    /\ metrics_list[2].simple_roi = Missing
    /\ metrics_list[3].simple_roi = None
    /\ ScoredAt(1).roi_rank = 3
    /\ ScoredAt(2).roi_rank = 1
    /\ ScoredAt(3).roi_rank = 2

-----------------------------------------------------------------------------
(* Further claims about calculate_composite_score, checked on SpecScore *)

\* C25: with the other metrics fixed, the composite score is non-increasing
\* in payback_period_months from 0 months upward, 0 months scoring best and
\* 120 months or more worst, and a missing payback scores like 999 months.
C25_PaybackLowerIsBetter ==
    score_pc = "returned" =>
        LET m == score_metrics[1]
            with(months) == CompositeScore([m EXCEPT !.payback_period_months = months],
                                           weights)
        IN  /\ m.payback_period_months \in {Missing, None} => score_result = with(999)
            /\ (m.payback_period_months \notin {Missing, None}
                    /\ m.payback_period_months >= 0) =>
                  \A later \in {6, 36, 120, 999, 5000} :
                      later >= m.payback_period_months => with(later) <= score_result

-----------------------------------------------------------------------------
(* C27 *)

\* C27: in every returned ComparisonResult the rankings are ordered by
\* non-increasing composite_score, the entry at position k (counted from 1)
\* has composite_rank k, and winner_id, winner_name and winner_score are those
\* of the first entry, so that winner_score is the maximum composite score of
\* the call.
C27_RankingsOrderedWinnerFirst ==
    cmp_pc = "returned" =>
        LET result   == cmp_result[1]
            rankings == result.rankings
        IN  /\ Len(rankings) = Len(investments)
            /\ \A k \in DOMAIN rankings : rankings[k].composite_rank = k
            /\ \A k \in 1..(Len(rankings) - 1) :
                  rankings[k].composite_score >= rankings[k + 1].composite_score
            /\ result.winner_id = rankings[1].investment_id
            /\ result.winner_name = rankings[1].name
            /\ result.winner_score = rankings[1].composite_score
            /\ \A i \in DOMAIN metrics_list :
                  result.winner_score >= CompositeScore(metrics_list[i], weights)

\* a comparison of three investments with three different composite scores
\* whose winner is the last of the input
C27_LastOfInputWins ==
    /\ cmp_pc = "returned"
    /\ Len(investments) = 3
    /\ cmp_result[1].winner_id = investments[3].id
    /\ \A i, j \in 1..3 :
          i # j => CompositeScore(metrics_list[i], weights)
                      # CompositeScore(metrics_list[j], weights)

-----------------------------------------------------------------------------
(* The compare endpoint: analyze_investment, to_dict, compare_investments *)

\* "round(x, places) if x else None": None for an absent or zero value
RoundedOrNone(x, is_zero, places) ==
    IF x = Absent \/ is_zero THEN None ELSE <<"round", x, places>>

\* InvestmentMetrics.to_dict(): the metrics grouped under five section keys
ToDict(id, name, category, m) ==
    [investment_id |-> id,
     name          |-> name,
     category      |-> category,
     basic |->
        [total_invested  |-> <<"round", m.total_invested, 2>>,
         current_value   |-> <<"round", m.current_value, 2>>,
         absolute_return |-> <<"round", m.absolute_return, 2>>,
         simple_roi      |-> <<"round", m.simple_roi, 2>>],
     time_weighted |->
        [annualized_roi |-> RoundedOrNone(m.annualized_roi, m.annualized_roi = <<0>>, 2),
         cagr           |-> RoundedOrNone(m.cagr, m.cagr = <<0>>, 2),
         years_held     |-> <<"round", m.years_held, 2>>],
     advanced |->
        [irr |-> RoundedOrNone(m.irr, m.irr = <<0>>, 2),
         npv |-> RoundedOrNone(m.npv, m.npv = <<0>>, 2),
         payback_period_months |->
            RoundedOrNone(m.payback_period_months,
                          m.payback_period_months = <<0, 1>>, 1)],
     risk |->
        [sharpe_ratio |-> RoundedOrNone(m.sharpe_ratio, FALSE, 2),
         volatility   |->
            RoundedOrNone(m.volatility,
                          m.volatility # Absent
                             /\ \A i, j \in DOMAIN m.volatility[2] :
                                   FracEq(m.volatility[2][i], m.volatility[2][j]), 2),
         max_drawdown |->
            RoundedOrNone(m.max_drawdown,
                          m.max_drawdown # Absent /\ m.max_drawdown[1] = 0, 2),
         var_95       |-> RoundedOrNone(m.var_95, FALSE, 2)],
     comparative |->
        [vs_inflation |->
            RoundedOrNone(m.vs_inflation,
                          Len(m.vs_inflation) = 2 /\ m.vs_inflation[1] = 0, 2),
         vs_cdi   |-> RoundedOrNone(m.vs_cdi, FALSE, 2),
         vs_sp500 |-> RoundedOrNone(m.vs_sp500, FALSE, 2)]]

\* what the comparator's metrics.get(key) calls find in a metrics_list entry:
\* only the top-level keys of a dict are found
ComparatorReads(d) ==
    [key \in {"simple_roi", "cagr", "sharpe_ratio", "max_drawdown",
              "payback_period_months", "volatility"} |->
        IF key \in DOMAIN d THEN d[key] ELSE Missing]

MaxCompared == 2

\* the arguments the endpoint passes to analyze_investment for a row
EngineArguments(inv, day) ==
    [purchase_price    |-> IF inv.purchase_price # None THEN inv.purchase_price ELSE 0,
     current_value     |-> IF inv.current_value # None THEN inv.current_value ELSE 0,
     purchase_date     |-> IF inv.purchase_date # None THEN inv.purchase_date ELSE day,
     cash_flows        |-> <<>>,
     valuation_history |-> inv.valuations]

\* the investment_data entry of a row
InvestmentData(inv) ==
    [id             |-> inv.id,
     name           |-> inv.name,
     category       |-> inv.category,
     current_value  |-> IF inv.current_value # None THEN inv.current_value ELSE 0,
     purchase_price |-> IF inv.purchase_price # None THEN inv.purchase_price ELSE 0]

\* POST /compare on the investments found for the requested ids
compare_endpoint ==
    /\ ep_pc = "idle"
    /\ \E n \in 0..MaxCompared :
       \E rows \in [1..n -> [purchase_price : {None, 100},
                             current_value  : {100, 120, 150},
                             purchase_date  : {None, -731},
                             valuations     : {<<>>, ShapedHistory("swing", 3, FALSE)}]],
          root \in {NaN, 12} :
          LET found == [i \in 1..n |->
                           [id |-> i, name |-> i,
                            category |-> Categories[((i - 1) % Len(Categories)) + 1],
                            purchase_price |-> rows[i].purchase_price,
                            current_value  |-> rows[i].current_value,
                            purchase_date  |-> rows[i].purchase_date,
                            valuations     |-> rows[i].valuations]]
              analysed == [i \in 1..n |->
                              AnalyzeInvestment(EngineArguments(found[i], today),
                                                today, root)]
              all_metrics == [i \in 1..n |->
                                 ToDict(found[i].id, found[i].name, found[i].category,
                                        analysed[i].metrics[1])]
          IN  /\ ep_rows' = found
              /\ IF n < 2
                 THEN \* HTTPException(400): at least 2 valid investments required
                      /\ ep_pc' = "raised"
                      /\ ep_metrics' = <<>>
                      /\ ep_result' = <<>>
                 ELSE IF \E i \in 1..n : analysed[i].error # ""
                 THEN /\ ep_pc' = "raised"
                      /\ ep_metrics' = <<>>
                      /\ ep_result' = <<>>
                 ELSE \E result \in
                         {ComparisonResult([i \in 1..n |-> InvestmentData(found[i])],
                                           [i \in 1..n |-> ComparatorReads(all_metrics[i])],
                                           DEFAULT_SCORING_WEIGHTS)} :
                         /\ ep_metrics' = all_metrics
                         /\ ep_pc' = IF result.raises THEN "raised" ELSE "returned"
                         /\ ep_result' = IF result.raises THEN <<>> ELSE <<result>>
    /\ UNCHANGED <<weights, cmpVars, scoreVars, optVars, engineVars, fnVars, azVars,
                   scVars, wkVars>>

SpecEndpoint == InitIdle /\ [][compare_endpoint]_vars

-----------------------------------------------------------------------------
(* C26 *)

\* the simple_roi the engine computed for row i, as a fraction
EngineRoi(i) ==
    CalculateSimpleRoi(EngineArguments(ep_rows[i], today).purchase_price,
                       EngineArguments(ep_rows[i], today).current_value)

\* the ranking entry of row i
EndpointRanking(i) ==
    LET rankings == ep_result[1].rankings
    IN  rankings[CHOOSE k \in DOMAIN rankings : rankings[k].investment_id = ep_rows[i].id]

\* row i was bought at least a year ago and has grown by at most half, which
\* puts its simple_roi in [0, 50] and its cagr in [0, 50], inside the
\* reference ranges [-50, 200] and [-20, 50]
InsideReferenceRanges(i) ==
    LET args == EngineArguments(ep_rows[i], today)
    IN  /\ HoldingPeriodDays(today, args.purchase_date) >= 366
        /\ args.purchase_price > 0
        /\ args.purchase_price <= args.current_value
        /\ 2 * args.current_value <= 3 * args.purchase_price

\* C26: when the compare endpoint hands the engine's metrics (to_dict of each
\* analyze_investment result) to the comparator, the investment with the
\* strictly highest simple_roi gets roi_rank 1, and two investments bought on
\* the same day whose simple_roi and cagr differ inside the reference ranges
\* get different composite scores.
C26_ComparatorRanksEngineValues ==
    ep_pc = "returned" =>
        /\ \A i \in DOMAIN ep_rows :
              (\A j \in DOMAIN ep_rows \ {i} :
                  ~FracLeq(EngineRoi(i), EngineRoi(j)))
                 => EndpointRanking(i).roi_rank = 1
        /\ \A i, j \in DOMAIN ep_rows :
              (/\ InsideReferenceRanges(i)
               /\ InsideReferenceRanges(j)
               /\ ep_rows[i].purchase_date = ep_rows[j].purchase_date
               /\ ~FracEq(EngineRoi(i), EngineRoi(j)))
                 => EndpointRanking(i).composite_score
                       # EndpointRanking(j).composite_score

\* the same claim on the calls in which the first row has the highest simple_roi
\* and no two rows differ inside the reference ranges
C26_HoldsWhenFirstRowLeads ==
    (/\ ep_pc = "returned"
     /\ \A j \in DOMAIN ep_rows \ {1} : ~FracLeq(EngineRoi(1), EngineRoi(j))
     /\ ~\E i \in DOMAIN ep_rows : InsideReferenceRanges(i))
        => C26_ComparatorRanksEngineValues

-----------------------------------------------------------------------------
(* The processing-job queue: workers (prism/worker/main.py) and cancel_job *)

MaxWorkers == 2
MaxRetries == 3

Workers == 1..MaxWorkers

\* the ids of the processing_jobs rows: one job is followed through the queue
Jobs == {1}

\* Worker._fail_job, first statement: "SELECT retry_count, max_retries", and
\* the branch it leads to
FailJobReads(table, j) ==
    \* "if row and row['retry_count'] < row['max_retries']"
    IF table[j].retry_count < table[j].max_retries THEN "requeue" ELSE "fail"

\* Worker._fail_job, second statement and commit: the UPDATE of the branch
\* taken, "WHERE id = %s"
FailJobWrites(table, j, branch) ==
    IF branch = "requeue"
    THEN [table EXCEPT ![j].status = "queued", ![j].worker_id = 0]
    ELSE [table EXCEPT ![j].status = "failed"]

\* Worker._claim_job returning a job: one transaction selects the oldest queued
\* job FOR UPDATE SKIP LOCKED and sets it running
claim_job(w) ==
    /\ workers[w].handler = "none"
    /\ workers[w].pc = "poll"
    /\ workers[w].running
    /\ \E k \in Jobs : jobs[k].status = "queued"
    /\ LET \* "ORDER BY pj.priority ASC, pj.created_at ASC ... LIMIT 1"
           j == CHOOSE q \in Jobs :
                   /\ jobs[q].status = "queued"
                   /\ \A k \in Jobs : jobs[k].status = "queued" => q <= k
       IN  /\ jobs' = [jobs EXCEPT ![j].status = "running",
                                   ![j].worker_id = w,
                                   ![j].retry_count = @ + 1]
           /\ job_claims' = [job_claims EXCEPT ![j] = @ + 1]
           /\ workers' = [workers EXCEPT ![w].pc = "claimed", ![w].job = j]
    /\ UNCHANGED <<cancel_pc, analysis_results>>
    /\ UNCHANGED <<weights, cmpVars, scoreVars, optVars, engineVars, fnVars, azVars,
                   scVars, epVars>>

\* run: "self.current_job = job", then process_job(job) is entered
set_current_job(w) ==
    /\ workers[w].handler = "none"
    /\ workers[w].pc = "claimed"
    /\ workers' = [workers EXCEPT ![w].pc = "processing",
                                  ![w].current_job = workers[w].job]
    /\ UNCHANGED <<jobs, cancel_pc, job_claims, analysis_results>>
    /\ UNCHANGED <<weights, cmpVars, scoreVars, optVars, engineVars, fnVars, azVars,
                   scVars, epVars>>

\* process_job: the download or the analysis raises, "except Exception" calls
\* _fail_job, which reads the retry counters
process_job_raises(w) ==
    /\ workers[w].handler = "none"
    /\ workers[w].pc = "processing"
    /\ workers' = [workers EXCEPT ![w].pc = FailJobReads(jobs, workers[w].job)]
    /\ UNCHANGED <<jobs, cancel_pc, job_claims, analysis_results>>
    /\ UNCHANGED <<weights, cmpVars, scoreVars, optVars, engineVars, fnVars, azVars,
                   scVars, epVars>>

\* process_job: _fail_job updates the job and commits, process_job returns False
fail_job_writes(w) ==
    /\ workers[w].handler = "none"
    /\ workers[w].pc \in {"requeue", "fail"}
    /\ jobs' = FailJobWrites(jobs, workers[w].job, workers[w].pc)
    /\ workers' = [workers EXCEPT ![w].pc = "returned"]
    /\ UNCHANGED <<cancel_pc, job_claims, analysis_results>>
    /\ UNCHANGED <<weights, cmpVars, scoreVars, optVars, engineVars, fnVars, azVars,
                   scVars, epVars>>

\* process_job: _save_analysis_result inserts a row into analysis_results
save_analysis_result(w) ==
    /\ workers[w].handler = "none"
    /\ workers[w].pc = "processing"
    /\ analysis_results' = [analysis_results EXCEPT ![workers[w].job] = @ + 1]
    /\ workers' = [workers EXCEPT ![w].pc = "saved"]
    /\ UNCHANGED <<jobs, cancel_pc, job_claims>>
    /\ UNCHANGED <<weights, cmpVars, scoreVars, optVars, engineVars, fnVars, azVars,
                   scVars, epVars>>

\* process_job: _complete_job sets status = 'completed' WHERE id = job_id,
\* and process_job returns True
complete_job(w) ==
    /\ workers[w].handler = "none"
    /\ workers[w].pc = "saved"
    /\ jobs' = [jobs EXCEPT ![workers[w].job].status = "completed"]
    /\ workers' = [workers EXCEPT ![w].pc = "returned"]
    /\ UNCHANGED <<cancel_pc, job_claims, analysis_results>>
    /\ UNCHANGED <<weights, cmpVars, scoreVars, optVars, engineVars, fnVars, azVars,
                   scVars, epVars>>

\* run: "self.current_job = None" after process_job has returned
clear_current_job(w) ==
    /\ workers[w].handler = "none"
    /\ workers[w].pc = "returned"
    /\ workers' = [workers EXCEPT ![w].pc = "poll", ![w].job = 0,
                                  ![w].current_job = 0]
    /\ UNCHANGED <<jobs, cancel_pc, job_claims, analysis_results>>
    /\ UNCHANGED <<weights, cmpVars, scoreVars, optVars, engineVars, fnVars, azVars,
                   scVars, epVars>>

\* run: "while self.running" is false, the loop ends
worker_exits(w) ==
    /\ workers[w].handler = "none"
    /\ workers[w].pc = "poll"
    /\ ~workers[w].running
    /\ workers' = [workers EXCEPT ![w].pc = "stopped"]
    /\ UNCHANGED <<jobs, cancel_pc, job_claims, analysis_results>>
    /\ UNCHANGED <<weights, cmpVars, scoreVars, optVars, engineVars, fnVars, azVars,
                   scVars, epVars>>

\* Worker._signal_handler on the first SIGTERM or SIGINT, up to the SELECT of
\* its _fail_job call: it runs between two steps of the main thread, which
\* waits until the handler returns
signal_handler(w) ==
    /\ workers[w].pc # "stopped"
    /\ workers[w].running
    /\ workers' = [workers EXCEPT
                      ![w].running = FALSE,
                      ![w].handler = IF workers[w].current_job # 0
                                     THEN FailJobReads(jobs, workers[w].current_job)
                                     ELSE "none"]
    /\ UNCHANGED <<jobs, cancel_pc, job_claims, analysis_results>>
    /\ UNCHANGED <<weights, cmpVars, scoreVars, optVars, engineVars, fnVars, azVars,
                   scVars, epVars>>

\* Worker._signal_handler: its _fail_job call updates the job and commits, the
\* handler returns and the main thread goes on where it was
signal_handler_returns(w) ==
    /\ workers[w].handler # "none"
    /\ jobs' = FailJobWrites(jobs, workers[w].current_job, workers[w].handler)
    /\ workers' = [workers EXCEPT ![w].handler = "none"]
    /\ UNCHANGED <<cancel_pc, job_claims, analysis_results>>
    /\ UNCHANGED <<weights, cmpVars, scoreVars, optVars, engineVars, fnVars, azVars,
                   scVars, epVars>>

\* cancel_job: the job is loaded and its status is queued or running
\* (any other status is answered with HTTP 400 and changes nothing)
cancel_job_checks(j) ==
    /\ cancel_pc[j] = "idle"
    /\ jobs[j].status \in {"queued", "running"}
    /\ cancel_pc' = [cancel_pc EXCEPT ![j] = "checked"]
    /\ UNCHANGED <<jobs, workers, job_claims, analysis_results>>
    /\ UNCHANGED <<weights, cmpVars, scoreVars, optVars, engineVars, fnVars, azVars,
                   scVars, epVars>>

\* cancel_job: "job.status = JobStatus.CANCELLED; await db.commit()"
cancel_job_commits(j) ==
    /\ cancel_pc[j] = "checked"
    /\ jobs' = [jobs EXCEPT ![j].status = "cancelled"]
    /\ cancel_pc' = [cancel_pc EXCEPT ![j] = "idle"]
    /\ UNCHANGED <<workers, job_claims, analysis_results>>
    /\ UNCHANGED <<weights, cmpVars, scoreVars, optVars, engineVars, fnVars, azVars,
                   scVars, epVars>>

\* queued jobs as the upload endpoints create them, and workers just started
InitQueue ==
    /\ weights = DEFAULT_SCORING_WEIGHTS
    /\ CompareIdle
    /\ ScoreIdle
    /\ OptimizerIdle
    /\ EngineIdle
    /\ FunctionsIdle
    /\ AnalysisIdle
    /\ ScenariosIdle
    /\ EndpointIdle
    /\ \E max_retries \in [Jobs -> 0..MaxRetries] :
          jobs = [j \in Jobs |-> [status |-> "queued", retry_count |-> 0,
                                  max_retries |-> max_retries[j], worker_id |-> 0]]
    /\ workers = [w \in Workers |-> [pc |-> "poll", running |-> TRUE,
                                     job |-> 0, current_job |-> 0, handler |-> "none"]]
    /\ cancel_pc = [j \in Jobs |-> "idle"]
    /\ job_claims = [j \in Jobs |-> 0]
    /\ analysis_results = [j \in Jobs |-> 0]

NextQueue ==
    \/ \E w \in Workers : claim_job(w)
    \/ \E w \in Workers : set_current_job(w)
    \/ \E w \in Workers : process_job_raises(w)
    \/ \E w \in Workers : fail_job_writes(w)
    \/ \E w \in Workers : save_analysis_result(w)
    \/ \E w \in Workers : complete_job(w)
    \/ \E w \in Workers : clear_current_job(w)
    \/ \E w \in Workers : worker_exits(w)
    \/ \E w \in Workers : signal_handler(w)
    \/ \E w \in Workers : signal_handler_returns(w)
    \/ \E j \in Jobs : cancel_job_checks(j)
    \/ \E j \in Jobs : cancel_job_commits(j)

SpecQueue == InitQueue /\ [][NextQueue]_vars

-----------------------------------------------------------------------------
(* C28 *)

\* C28: once cancel_job has set a job to 'cancelled', no later step of a worker
\* (_complete_job, _fail_job, the signal handler) changes its status to
\* 'completed', 'failed' or back to 'queued'.
C28_CancelledIsFinal ==
    [][\A j \in DOMAIN jobs :
          jobs[j].status = "cancelled"
             => jobs'[j].status \notin {"completed", "failed", "queued"}]_vars

\* the same on the steps taken while no worker holds the cancelled job
C28_CancelledIsFinalWhenUnclaimed ==
    [][\A j \in DOMAIN jobs :
          (/\ jobs[j].status = "cancelled"
           /\ \A w \in DOMAIN workers : workers[w].job # j)
             => jobs'[j].status = "cancelled"]_vars

-----------------------------------------------------------------------------
(* C29 *)

\* the workers between _claim_job returning job j and process_job(j) returning
ProcessingJob(j) ==
    {w \in DOMAIN workers :
        workers[w].job = j /\ workers[w].pc \in {"claimed", "processing", "saved", "requeue", "fail"}}

\* C29: a job is processed by at most one worker at a time (after a worker has
\* claimed it no other worker claims it before the first worker's process_job
\* has returned, a shutdown signal included), and at most one analysis result is
\* saved per claim of a job.
C29_OneWorkerPerJob ==
    \A j \in DOMAIN jobs :
        /\ Cardinality(ProcessingJob(j)) <= 1
        /\ analysis_results[j] <= job_claims[j]

\* the same as long as no worker has received a shutdown signal
C29_OneWorkerPerJobWithoutSignal ==
    (\A w \in DOMAIN workers : workers[w].running) => C29_OneWorkerPerJob

-----------------------------------------------------------------------------
(* C30 *)

\* C30: retry_count goes up by exactly 1 on each claim, so it equals the number
\* of claims; a job that has been claimed is 'queued' again only while
\* retry_count < max_retries; hence a job is claimed at most
\* max(1, max_retries) times and retry_count never exceeds max(1, max_retries),
\* whatever the workers, signals and cancel requests do.
C30_RetriesBounded ==
    \A j \in DOMAIN jobs :
        /\ jobs[j].retry_count = job_claims[j]
        /\ (jobs[j].status = "queued" /\ job_claims[j] > 0)
              => jobs[j].retry_count < jobs[j].max_retries
        /\ job_claims[j] <= Max(1, jobs[j].max_retries)
        /\ jobs[j].retry_count <= Max(1, jobs[j].max_retries)

\* the number of claims alone: at most max(1, max_retries)
C30_ClaimsBounded ==
    \A j \in DOMAIN jobs : job_claims[j] <= Max(1, jobs[j].max_retries)

\* the same as long as no worker has received a shutdown signal
C30_RetriesBoundedWithoutSignal ==
    (\A w \in DOMAIN workers : workers[w].running) => C30_RetriesBounded

====
